---- MODULE Spec2Model ----
(***************************************************************************)
(* A model of reditor's document buffer (src/src/buffer_file.rs), of its   *)
(* tab collection (src/src/workspace.rs), of its file tree                 *)
(* (src/src/sidebar.rs) and of the editor's event loop and search bar      *)
(* (src/src/editor.rs, src/src/display.rs).                                *)
(*                                                                         *)
(* Thirteen specifications share the module:                              *)
(*   SpecDocument   one BufferFile, opened from a file, then edited with   *)
(*                  add_char / remove_char / split_line / save called with *)
(*                  arbitrary column and row arguments;                    *)
(*   SpecWorkspace  one Workspace driven by open_file / close_active /     *)
(*                  next_tab / prev_tab / switch_to;                       *)
(*   SpecSidebar    the editor started on a directory, with the keys of    *)
(*                  the focused sidebar and Ctrl+T;                        *)
(*   SpecSearch     the editor started on a file, with the navigation keys *)
(*                  and the search bar (Ctrl+F, characters, Backspace,     *)
(*                  Enter, Esc);                                           *)
(*   SpecEdit       the editor started on a file, with the navigation keys *)
(*                  and the keys of insert mode;                           *)
(*   SpecStatus     the status bar drawn for a display of a given width;   *)
(*   SpecTabs       the editor started on a file, with scrolling, the open *)
(*                  prompt, the sidebar, the tab switches and Ctrl+S;      *)
(*   SpecBatch      the editor started on a file, with its keys arriving   *)
(*                  in batches and the calls of render counted;            *)
(*   SpecSave       the editor started on a file, with typing, Ctrl+S,     *)
(*                  Ctrl+W and Ctrl+Q and writes that succeed or fail;     *)
(*   SpecFile       a file of any content, carriage returns included, read *)
(*                  by BufferFile::new;                                    *)
(*   SpecDirty      one BufferFile edited and saved, with the lines it was *)
(*                  opened or last saved with kept beside it;              *)
(*   SpecKeys       the editor started on a file, with the keys of the     *)
(*                  search bar, the sidebar and both modes arriving in     *)
(*                  whatever mode and focus it is in;                      *)
(*   SpecWelcome    the editor started without a file, with files opened   *)
(*                  from the prompt and the sidebar, edited, switched      *)
(*                  between and closed.                                    *)
(* Each specification leaves the other ones' variables at their initial    *)
(* values.                                                                 *)
(*                                                                         *)
(* A character is a one-character string, a line (Vec<char>) a sequence of *)
(* characters, file_matrix (Vec<Vec<char>>) a sequence of lines.  Rust     *)
(* indices are 0-based, TLA+ sequences 1-based: element i of a Vec is      *)
(* v[i + 1] here.                                                          *)
(***************************************************************************)
EXTENDS Integers, Sequences, FiniteSets, TLC

(***************************************************************************)
(* Bounds of the model.                                                    *)
(***************************************************************************)
\* most lines a document grows to
MaxLines == 3
\* most characters a document holds, over all its lines
MaxChars == 3
\* longest file content a document is opened from
MaxFile == 3
\* number of files on disk that the workspace can open
NumPaths == 3

\* the characters typed into a document
Chars == {"a", "b"}
NL == "\n"
CR == "\r"
\* the characters of a file on disk
FileChars == Chars \cup {NL}

\* every sequence over S of length at most n
SeqUpTo(S, n) == UNION {[1..k -> S] : k \in 0..n}


VARIABLES
  buf,        \* SpecDocument: the BufferFile
  op,         \* the last call on buf: [name, character, column, row]
  ret,        \* what the last call returned (remove_char's bool; save's is_ok)
  clean,      \* SpecDirty: the lines buf was opened with or last saved
              \* with (<<>> elsewhere)
  pre,        \* buf as it was before the last call
  trip,       \* set by remove_char when it follows an add_char(ch, c, r) as
              \* remove_char(c + 1, r), or a split_line(c, r) as
              \* remove_char(0, r + 1): that call's kind, column and row,
              \* and the file_matrix before it
  workspace,  \* SpecWorkspace: the Workspace [buffers, active_index]
  wop,        \* the last call on workspace: [name, arg]
  wret,       \* what the last call returned (close_active's bool)
  wpre,       \* workspace as it was before the last call
  wop2,       \* the call before the last one
  wpre2,      \* workspace as it was before the call before the last one
  nexts,      \* number of next_tab calls in a row up to now (saturating)
  nexts_from, \* active_index when that run of next_tab calls began
  editor,     \* SpecSidebar, SpecSearch: the Editor, with the terminal's
              \* cursor in its field `cursor`
  nav,        \* SpecSearch: what the search bar did with the last event:
              \* [did, row, col], did being "none", "esc" (search left
              \* with Esc), "empty" (Enter on an empty query), "miss"
              \* (Enter, no match) or "jump" (Enter, jump to row, col);
              \* "save" when the event was Ctrl+S, "quit" or "close"
              \* when it was Ctrl+Q or Ctrl+W, with the answer given
              \* to the question in a field `answer` ("none" when
              \* nothing was asked)
  status,     \* SpecStatus: the Display fields the status bar shows, the
              \* width it is drawn at, and the line drawn (<<>> before)
  batch,      \* SpecBatch: the batch of events being handled: [events,
              \* renders, done], the events of it handled so far, the
              \* calls of render made for it, and whether its last event
              \* has been handled
  file        \* SpecFile: a file on disk and what was read from it:
              \* [content, read, matrix]

docvars == <<buf, op, ret, clean, pre, trip>>
wsvars == <<workspace, wop, wret, wpre, wop2, wpre2, nexts, nexts_from>>
edvars == <<editor, nav, status, batch, file>>
vars == <<docvars, wsvars, edvars>>

(***************************************************************************)
(* Vec<T> and str operations used by the code.                             *)
(***************************************************************************)
\* Vec::insert(index, element), index <= len
vec_insert(v, index, element) ==
  SubSeq(v, 1, index) \o <<element>> \o SubSeq(v, index + 1, Len(v))

\* Vec::remove(index), index < len: the vector without element `index`
vec_remove(v, index) ==
  SubSeq(v, 1, index) \o SubSeq(v, index + 2, Len(v))

\* Vec::split_off(at), at <= len: [kept, tail]
vec_split_off(v, at) ==
  [kept |-> SubSeq(v, 1, at), tail |-> SubSeq(v, at + 1, Len(v))]

\* index of the first NL of s (1-based), 0 when there is none
first_newline(s) ==
  IF \E i \in 1..Len(s) : s[i] = NL
  THEN CHOOSE i \in 1..Len(s) : s[i] = NL /\ \A j \in 1..(i - 1) : s[j] # NL
  ELSE 0

\* str::lines(): the pieces between newlines; a line that ended in a newline
\* loses one carriage return before it; no line after a final newline
RECURSIVE str_lines(_)
str_lines(s) ==
  IF s = <<>> THEN <<>>
  ELSE LET k == first_newline(s) IN
       IF k = 0 THEN <<s>>
       ELSE LET line == SubSeq(s, 1, k - 1)
                stripped == IF Len(line) > 0 /\ line[Len(line)] = CR
                            THEN SubSeq(line, 1, Len(line) - 1)
                            ELSE line
            IN <<stripped>> \o str_lines(SubSeq(s, k + 1, Len(s)))

(***************************************************************************)
(* BufferFile (src/src/buffer_file.rs).                                    *)
(***************************************************************************)
get_file_matrix_no_push(content) == str_lines(content)

get_file_matrix(content) ==
  LET matrix == str_lines(content)
  IN IF matrix = <<>> THEN <<<<>>>> ELSE matrix

\* BufferFile::new(path) where the file at path holds `content`
BufferFile_new(path, content) ==
  [filename |-> path,
   file_matrix |-> get_file_matrix(content),
   modified |-> FALSE,
   cursor_row |-> 0,
   cursor_col |-> 0,
   initial_row |-> 0,
   initial_column |-> 0]

\* add_char that leaves the modified flag as it is
add_char_unmarked(b, character, column, row) ==
  IF row >= Len(b.file_matrix) THEN b
  ELSE LET file_row == b.file_matrix[row + 1]
           new_row == IF column < Len(file_row)
                      THEN vec_insert(file_row, column, character)
                      ELSE Append(file_row, character)
       IN [b EXCEPT !.file_matrix[row + 1] = new_row]

add_char(b, character, column, row) ==
  IF row >= Len(b.file_matrix) THEN b
  ELSE LET file_row == b.file_matrix[row + 1]
           new_row == IF column < Len(file_row)
                      THEN vec_insert(file_row, column, character)
                      ELSE Append(file_row, character)
       IN [b EXCEPT !.file_matrix[row + 1] = new_row, !.modified = TRUE]

\* remove_char with the merge branch returning false
remove_char_ret_false(b, column, row) ==
  IF row >= Len(b.file_matrix) THEN [b |-> b, ret |-> FALSE]
  ELSE IF column > 0 THEN
    LET file_row == b.file_matrix[row + 1]
        new_row == IF column <= Len(file_row)
                   THEN vec_remove(file_row, column - 1)
                   ELSE file_row
    IN [b |-> [b EXCEPT !.file_matrix[row + 1] = new_row, !.modified = TRUE],
        ret |-> FALSE]
  ELSE IF row > 0 THEN
    LET current_line == b.file_matrix[row + 1]
        removed == vec_remove(b.file_matrix, row)
        merged == [removed EXCEPT ![row] = @ \o current_line]
    IN [b |-> [b EXCEPT !.file_matrix = merged, !.modified = TRUE],
        ret |-> FALSE]
  ELSE [b |-> b, ret |-> FALSE]

\* remove_char deleting the character under the caret instead of left of it
remove_char_under_caret(b, column, row) ==
  IF row >= Len(b.file_matrix) THEN [b |-> b, ret |-> FALSE]
  ELSE IF column > 0 THEN
    LET file_row == b.file_matrix[row + 1]
        new_row == IF column < Len(file_row)
                   THEN vec_remove(file_row, column)
                   ELSE file_row
    IN [b |-> [b EXCEPT !.file_matrix[row + 1] = new_row, !.modified = TRUE],
        ret |-> FALSE]
  ELSE IF row > 0 THEN
    LET current_line == b.file_matrix[row + 1]
        removed == vec_remove(b.file_matrix, row)
        merged == [removed EXCEPT ![row] = @ \o current_line]
    IN [b |-> [b EXCEPT !.file_matrix = merged, !.modified = TRUE],
        ret |-> TRUE]
  ELSE [b |-> b, ret |-> FALSE]

\* remove_char prepending the removed line to the previous one
remove_char_prepend(b, column, row) ==
  IF row >= Len(b.file_matrix) THEN [b |-> b, ret |-> FALSE]
  ELSE IF column > 0 THEN
    LET file_row == b.file_matrix[row + 1]
        new_row == IF column <= Len(file_row)
                   THEN vec_remove(file_row, column - 1)
                   ELSE file_row
    IN [b |-> [b EXCEPT !.file_matrix[row + 1] = new_row, !.modified = TRUE],
        ret |-> FALSE]
  ELSE IF row > 0 THEN
    LET current_line == b.file_matrix[row + 1]
        removed == vec_remove(b.file_matrix, row)
        merged == [removed EXCEPT ![row] = current_line \o @]
    IN [b |-> [b EXCEPT !.file_matrix = merged, !.modified = TRUE],
        ret |-> TRUE]
  ELSE [b |-> b, ret |-> FALSE]

\* remove_char(column, row): [b |-> the buffer afterwards, ret |-> the bool]
remove_char(b, column, row) ==
  IF row >= Len(b.file_matrix) THEN [b |-> b, ret |-> FALSE]
  ELSE IF column > 0 THEN
    LET file_row == b.file_matrix[row + 1]
        new_row == IF column <= Len(file_row)
                   THEN vec_remove(file_row, column - 1)
                   ELSE file_row
    IN [b |-> [b EXCEPT !.file_matrix[row + 1] = new_row, !.modified = TRUE],
        ret |-> FALSE]
  ELSE IF row > 0 THEN
    LET current_line == b.file_matrix[row + 1]
        removed == vec_remove(b.file_matrix, row)
        merged == [removed EXCEPT ![row] = @ \o current_line]
    IN [b |-> [b EXCEPT !.file_matrix = merged, !.modified = TRUE],
        ret |-> TRUE]
  ELSE [b |-> b, ret |-> FALSE]

\* split_line keeping the tail on the line and moving the head down
split_line_swapped(b, column, row) ==
  IF row >= Len(b.file_matrix) THEN b
  ELSE LET file_row == b.file_matrix[row + 1]
           parts == IF column < Len(file_row)
                    THEN vec_split_off(file_row, column)
                    ELSE [kept |-> file_row, tail |-> <<>>]
           shortened == [b.file_matrix EXCEPT ![row + 1] = parts.tail]
       IN [b EXCEPT !.file_matrix = vec_insert(shortened, row + 1, parts.kept),
                    !.modified = TRUE]

split_line(b, column, row) ==
  IF row >= Len(b.file_matrix) THEN b
  ELSE LET file_row == b.file_matrix[row + 1]
           parts == IF column < Len(file_row)
                    THEN vec_split_off(file_row, column)
                    ELSE [kept |-> file_row, tail |-> <<>>]
           shortened == [b.file_matrix EXCEPT ![row + 1] = parts.kept]
       IN [b EXCEPT !.file_matrix = vec_insert(shortened, row + 1, parts.tail),
                    !.modified = TRUE]

\* the bytes save() writes: the lines joined by one newline
RECURSIVE join_lines(_)
join_lines(m) ==
  IF m = <<>> THEN <<>>
  ELSE IF Len(m) = 1 THEN m[1]
  ELSE m[1] \o <<NL>> \o join_lines(Tail(m))

\* save() that clears the modified flag before it writes
save_clear_first(b, write_ok) ==
  [b |-> [b EXCEPT !.modified = FALSE], ret |-> write_ok]

\* save(): write_ok is whether fs::write succeeded
save(b, write_ok) ==
  IF write_ok THEN [b |-> [b EXCEPT !.modified = FALSE], ret |-> TRUE]
  ELSE [b |-> b, ret |-> FALSE]

get_line_length(b, row) ==
  IF row < Len(b.file_matrix) THEN Len(b.file_matrix[row + 1]) ELSE 0

RECURSIVE total_chars(_)
total_chars(m) == IF m = <<>> THEN 0 ELSE Len(Head(m)) + total_chars(Tail(m))

\* The u16 arguments a call is tried with.  The code reads `row` only in
\* `row >= len` and as an index, and `column` only in comparisons with 0 and
\* with the line's length and as an index, so every row past the last one
\* behaves as row = len does, and every column past the line's end as
\* column = length + 1 does.
Rows(b) == 0..Len(b.file_matrix)
Columns(b, row) == 0..(get_line_length(b, row) + 1)

(***************************************************************************)
(* Workspace (src/src/workspace.rs).  A workspace is the record            *)
(* [buffers, active_index]; active_index is the 0-based usize of the code. *)
(***************************************************************************)
\* the files that exist on disk; callers of open_file check that the path
\* exists before they call it
Paths == 1..NumPaths

\* what read_to_string yields for the file at `path`
file_contents(path) == [i \in 1..(path - 1) |-> "a"]

\* 0-based index of the first buffer whose filename is `path`, -1 if none
position_of(buffers, path) ==
  IF \E i \in 1..Len(buffers) : buffers[i].filename = path
  THEN (CHOOSE i \in 1..Len(buffers) :
          /\ buffers[i].filename = path
          /\ \A j \in 1..(i - 1) : buffers[j].filename # path) - 1
  ELSE -1

\* open_file without the scan for an already open path
open_file_always_push(w, path) ==
  LET pushed == Append(w.buffers, BufferFile_new(path, file_contents(path)))
  IN [buffers |-> pushed, active_index |-> Len(pushed) - 1]

\* open_file(path): the workspace afterwards; the index it returns is the
\* new active_index
open_file(w, path) ==
  IF position_of(w.buffers, path) >= 0
  THEN [w EXCEPT !.active_index = position_of(w.buffers, path)]
  ELSE LET pushed == Append(w.buffers,
                            BufferFile_new(path, file_contents(path)))
       IN [buffers |-> pushed, active_index |-> Len(pushed) - 1]

\* close_active without the clamp of active_index
close_active_no_clamp(w) ==
  IF w.buffers = <<>> THEN [w |-> w, ret |-> FALSE]
  ELSE LET removed == vec_remove(w.buffers, w.active_index)
       IN IF removed = <<>>
          THEN [w |-> [buffers |-> removed, active_index |-> 0], ret |-> TRUE]
          ELSE [w |-> [w EXCEPT !.buffers = removed], ret |-> FALSE]

\* close_active testing for emptiness only before the removal
close_active_early_test(w) ==
  IF w.buffers = <<>> THEN [w |-> w, ret |-> TRUE]
  ELSE LET removed == vec_remove(w.buffers, w.active_index)
       IN IF removed = <<>>
          THEN [w |-> [buffers |-> removed, active_index |-> 0], ret |-> FALSE]
          ELSE IF w.active_index >= Len(removed)
          THEN [w |-> [buffers |-> removed, active_index |-> Len(removed) - 1],
                ret |-> FALSE]
          ELSE [w |-> [w EXCEPT !.buffers = removed], ret |-> FALSE]

\* close_active(): [w |-> the workspace afterwards, ret |-> the bool]
close_active(w) ==
  IF w.buffers = <<>> THEN [w |-> w, ret |-> FALSE]
  ELSE LET removed == vec_remove(w.buffers, w.active_index)
       IN IF removed = <<>>
          THEN [w |-> [buffers |-> removed, active_index |-> 0], ret |-> TRUE]
          ELSE IF w.active_index >= Len(removed)
          THEN [w |-> [buffers |-> removed, active_index |-> Len(removed) - 1],
                ret |-> FALSE]
          ELSE [w |-> [w EXCEPT !.buffers = removed], ret |-> FALSE]

next_tab(w) ==
  IF Len(w.buffers) > 1
  THEN [w EXCEPT !.active_index = (w.active_index + 1) % Len(w.buffers)]
  ELSE w

\* prev_tab that stays on the first tab instead of wrapping to the last
prev_tab_no_wrap(w) ==
  IF Len(w.buffers) > 1
  THEN IF w.active_index = 0
       THEN w
       ELSE [w EXCEPT !.active_index = w.active_index - 1]
  ELSE w

prev_tab(w) ==
  IF Len(w.buffers) > 1
  THEN IF w.active_index = 0
       THEN [w EXCEPT !.active_index = Len(w.buffers) - 1]
       ELSE [w EXCEPT !.active_index = w.active_index - 1]
  ELSE w

switch_to(w, index) ==
  IF index < Len(w.buffers) THEN [w EXCEPT !.active_index = index] ELSE w

\* active(): buffers.get(active_index); <<>> stands for None, a one-element
\* sequence for Some
active(w) ==
  IF w.active_index < Len(w.buffers)
  THEN <<w.buffers[w.active_index + 1]>>
  ELSE <<>>

has_files(w) == w.buffers # <<>>

(***************************************************************************)
(* SpecDocument: one BufferFile and the calls made on it.                  *)
(***************************************************************************)
NoCall == [name |-> "new", character |-> "a", column |-> 0, row |-> 0]
NoTrip == [kind |-> "none", base |-> <<>>, column |-> 0, row |-> 0]

\* Workspace::new()
Workspace_new == [buffers |-> <<>>, active_index |-> 0]
NoWsCall == [name |-> "new", arg |-> 0]

\* no Editor has been constructed, no event handled
NoEditor == <<>>
NoNav == [did |-> "none", row |-> 0, col |-> 0]
\* no status bar has been drawn
NoStatus == <<>>
\* no event has been handled
NoBatch == [events |-> 0, renders |-> 0, done |-> TRUE]
\* no file is looked at
NoFile == <<>>

EdIdle ==
  /\ editor = NoEditor
  /\ nav = NoNav
  /\ status = NoStatus
  /\ batch = NoBatch
  /\ file = NoFile

WsIdle ==
  /\ workspace = Workspace_new
  /\ wop = NoWsCall
  /\ wret = FALSE
  /\ wpre = Workspace_new
  /\ wop2 = NoWsCall
  /\ wpre2 = Workspace_new
  /\ nexts = 0
  /\ nexts_from = 0

\* the document right after BufferFile::new on a file of any content
DocInit ==
  /\ \E content \in SeqUpTo(FileChars, MaxFile) :
       buf = BufferFile_new(1, content)
  /\ op = NoCall
  /\ ret = FALSE
  /\ clean = <<>>
  /\ pre = buf
  /\ trip = NoTrip
  /\ WsIdle
  /\ EdIdle

AddChar(character, column, row) ==
  /\ row < Len(buf.file_matrix) => total_chars(buf.file_matrix) < MaxChars
  /\ buf' = add_char(buf, character, column, row)
  /\ op' = [name |-> "add_char", character |-> character,
            column |-> column, row |-> row]
  /\ ret' = FALSE
  /\ clean' = clean
  /\ pre' = buf
  /\ trip' = NoTrip
  /\ UNCHANGED <<wsvars, edvars>>

\* the last call was add_char or split_line at an existing row and a column
\* inside 0..=line length
LastCallInRange(name) ==
  /\ op.name = name
  /\ op.row < Len(pre.file_matrix)
  /\ op.column <= Len(pre.file_matrix[op.row + 1])

RemoveChar(column, row) ==
  /\ buf' = remove_char(buf, column, row).b
  /\ ret' = remove_char(buf, column, row).ret
  /\ op' = [name |-> "remove_char", character |-> "a",
            column |-> column, row |-> row]
  /\ clean' = clean
  /\ pre' = buf
  /\ trip' = IF LastCallInRange("add_char")
                /\ column = op.column + 1 /\ row = op.row
             THEN [kind |-> "insert_delete", base |-> pre.file_matrix,
                   column |-> op.column, row |-> op.row]
             ELSE IF LastCallInRange("split_line")
                     /\ column = 0 /\ row = op.row + 1
             THEN [kind |-> "split_delete", base |-> pre.file_matrix,
                   column |-> op.column, row |-> op.row]
             ELSE NoTrip
  /\ UNCHANGED <<wsvars, edvars>>

SplitLine(column, row) ==
  /\ row < Len(buf.file_matrix) => Len(buf.file_matrix) < MaxLines
  /\ buf' = split_line(buf, column, row)
  /\ op' = [name |-> "split_line", character |-> "a",
            column |-> column, row |-> row]
  /\ ret' = FALSE
  /\ clean' = clean
  /\ pre' = buf
  /\ trip' = NoTrip
  /\ UNCHANGED <<wsvars, edvars>>

Save(write_ok) ==
  /\ buf' = save(buf, write_ok).b
  /\ ret' = save(buf, write_ok).ret
  /\ clean' = clean
  /\ op' = [name |-> "save", character |-> "a", column |-> 0, row |-> 0]
  /\ pre' = buf
  /\ trip' = NoTrip
  /\ UNCHANGED <<wsvars, edvars>>

DocNext ==
  \/ \E character \in Chars, row \in Rows(buf) :
       \E column \in Columns(buf, row) : AddChar(character, column, row)
  \/ \E row \in Rows(buf) :
       \E column \in Columns(buf, row) : RemoveChar(column, row)
  \/ \E row \in Rows(buf) :
       \E column \in Columns(buf, row) : SplitLine(column, row)
  \/ \E write_ok \in BOOLEAN : Save(write_ok)

SpecDocument == DocInit /\ [][DocNext]_vars

(***************************************************************************)
(* Properties of the document.                                             *)
(***************************************************************************)

\* C1: a document has at least one line in every reachable state: right after
\* it is opened (an empty file included) and after any sequence of add_char,
\* remove_char and split_line calls with arbitrary column and row arguments.
C1_LineCountAtLeastOne == Len(buf.file_matrix) >= 1

\* a merge that brought the document down to its last line
C1_Witness ==
  /\ op.name = "remove_char"
  /\ ret
  /\ Len(buf.file_matrix) = 1

\* C2: add_char(ch, col, row) at an existing row and a column in
\* 0..=line length, followed by remove_char(col + 1, row), leaves every line
\* as it was before the add_char.
C2_InsertThenDelete ==
  trip.kind = "insert_delete" => buf.file_matrix = trip.base

\* the pair has run, with the character inserted inside a line
C2_Witness ==
  /\ trip.kind = "insert_delete"
  /\ 0 < trip.column
  /\ trip.column < Len(trip.base[trip.row + 1])

\* C3: split_line(col, row) at an existing row and a column in
\* 0..=line length, followed by remove_char(0, row + 1), restores the line
\* count and every line.
C3_SplitThenDelete ==
  trip.kind = "split_delete" => buf.file_matrix = trip.base

\* the pair has run, with the split inside a line of a document that has
\* other lines
C3_Witness ==
  /\ trip.kind = "split_delete"
  /\ 0 < trip.column
  /\ trip.column < Len(trip.base[trip.row + 1])
  /\ Len(trip.base) >= 2

\* the last call was remove_char(0, row) with 0 < row < line count
MergeCall ==
  /\ op.name = "remove_char"
  /\ op.column = 0
  /\ 0 < op.row
  /\ op.row < Len(pre.file_matrix)

\* C4: remove_char(0, row) with 0 < row < line count removes line row,
\* appends its content to line row - 1, lowers the line count by one, leaves
\* the other lines as they were and in order, and marks the document
\* modified.
C4_DeleteAtColumnZeroMerges ==
  MergeCall =>
    LET old == pre.file_matrix
        new == buf.file_matrix
        r == op.row
    IN /\ Len(new) = Len(old) - 1
       /\ new[r] = old[r] \o old[r + 1]
       /\ \A i \in 1..(r - 1) : new[i] = old[i]
       /\ \A i \in (r + 1)..Len(new) : new[i] = old[i + 1]
       /\ buf.modified

\* two different non-empty lines merged in an unmodified three-line document
C4_Witness ==
  /\ MergeCall
  /\ Len(pre.file_matrix) = 3
  /\ pre.file_matrix[op.row] # <<>>
  /\ pre.file_matrix[op.row + 1] # <<>>
  /\ pre.file_matrix[op.row] # pre.file_matrix[op.row + 1]
  /\ ~pre.modified

\* the last call was remove_char at an existing row and a column in
\* 0..=line length
DeleteInRange ==
  /\ op.name = "remove_char"
  /\ op.row < Len(pre.file_matrix)
  /\ op.column <= Len(pre.file_matrix[op.row + 1])

\* which of the three outcomes that call had
DeleteOutcome ==
  IF op.column > 0 THEN "CharDeleted"
  ELSE IF op.row > 0 THEN "LinesMerged"
  ELSE "NoOp"

\* C5 as stated: the result of remove_char alone tells which of CharDeleted,
\* LinesMerged and NoOp happened, so two calls in a row with the same result
\* had the same outcome.
C5_ResultTellsOutcome ==
  [][(DeleteInRange /\ DeleteInRange' /\ ret' = ret)
       => DeleteOutcome' = DeleteOutcome]_vars

\* C5 as amended: remove_char returns true exactly when column = 0 and
\* 0 < row < line count, and then the line count went down by one; it
\* returns false otherwise, with the line count unchanged, both when a
\* character was deleted and when nothing was.
C5_TrueExactlyWhenMerged ==
  op.name = "remove_char" =>
    /\ ret <=> MergeCall
    /\ ret => Len(buf.file_matrix) = Len(pre.file_matrix) - 1
    /\ ~ret => Len(buf.file_matrix) = Len(pre.file_matrix)

\* a character was deleted and the call returned false
C5_Witness ==
  /\ DeleteInRange
  /\ op.column > 0
  /\ buf.file_matrix # pre.file_matrix
  /\ ~ret

\* the last call had coordinates outside the document
BadCoordinates ==
  \/ /\ op.name \in {"add_char", "remove_char", "split_line"}
     /\ op.row >= Len(pre.file_matrix)
  \/ /\ op.name = "remove_char"
     /\ op.row < Len(pre.file_matrix)
     /\ op.column > Len(pre.file_matrix[op.row + 1])
  \/ /\ op.name = "remove_char"
     /\ op.column = 0
     /\ op.row = 0

\* C6: add_char, remove_char and split_line with row >= line count,
\* remove_char with a column past the end of the line, and remove_char(0, 0)
\* leave the lines and the modified flag as they were.
C6_BadCoordinatesChangeNothing ==
  BadCoordinates =>
    /\ buf.file_matrix = pre.file_matrix
    /\ buf.modified = pre.modified

(***************************************************************************)
(* SpecWorkspace: one Workspace and the calls made on it.                  *)
(***************************************************************************)
DocIdle ==
  /\ buf = BufferFile_new(1, <<>>)
  /\ op = NoCall
  /\ ret = FALSE
  /\ clean = <<>>
  /\ pre = buf
  /\ trip = NoTrip

WsInit == WsIdle /\ DocIdle /\ EdIdle

\* what every call records: the call, and the workspace before it
Called(name, arg) ==
  /\ wop' = [name |-> name, arg |-> arg]
  /\ wpre' = workspace
  /\ wop2' = wop
  /\ wpre2' = wpre
  /\ UNCHANGED <<docvars, edvars>>

OpenFile(path) ==
  /\ workspace' = open_file(workspace, path)
  /\ wret' = FALSE
  /\ nexts' = 0
  /\ nexts_from' = 0
  /\ Called("open_file", path)

CloseActive ==
  /\ workspace' = close_active(workspace).w
  /\ wret' = close_active(workspace).ret
  /\ nexts' = 0
  /\ nexts_from' = 0
  /\ Called("close_active", 0)

NextTab ==
  /\ workspace' = next_tab(workspace)
  /\ wret' = FALSE
  /\ nexts' = IF nexts <= NumPaths THEN nexts + 1 ELSE nexts
  /\ nexts_from' = IF nexts = 0 THEN workspace.active_index ELSE nexts_from
  /\ Called("next_tab", 0)

PrevTab ==
  /\ workspace' = prev_tab(workspace)
  /\ wret' = FALSE
  /\ nexts' = 0
  /\ nexts_from' = 0
  /\ Called("prev_tab", 0)

SwitchTo(index) ==
  /\ workspace' = switch_to(workspace, index)
  /\ wret' = FALSE
  /\ nexts' = 0
  /\ nexts_from' = 0
  /\ Called("switch_to", index)

WsNext ==
  \/ \E path \in Paths : OpenFile(path)
  \/ CloseActive
  \/ NextTab
  \/ PrevTab
  \/ \E index \in 0..NumPaths : SwitchTo(index)

SpecWorkspace == WsInit /\ [][WsNext]_vars

(***************************************************************************)
(* Properties of the workspace.                                            *)
(***************************************************************************)

\* C7: no two documents of the workspace have the same path, and open_file
\* of a path that is already open leaves the document sequence as it was
\* and sets active_index to that document's index.
C7_OpenFileDoesNotDuplicate ==
  /\ \A i, j \in 1..Len(workspace.buffers) :
       workspace.buffers[i].filename = workspace.buffers[j].filename => i = j
  /\ (wop.name = "open_file" /\ position_of(wpre.buffers, wop.arg) >= 0) =>
       /\ workspace.buffers = wpre.buffers
       /\ workspace.active_index = position_of(wpre.buffers, wop.arg)

\* an open path that was not the active one is opened again, after a close
C7_Witness ==
  /\ wop.name = "open_file"
  /\ position_of(wpre.buffers, wop.arg) >= 0
  /\ position_of(wpre.buffers, wop.arg) # wpre.active_index
  /\ wop2.name = "close_active"

\* C8: whenever the workspace has documents, active_index is in [0, len),
\* so active() returns a document.
C8_ActiveIndexInRange ==
  has_files(workspace) =>
    /\ 0 <= workspace.active_index
    /\ workspace.active_index < Len(workspace.buffers)
    /\ active(workspace) # <<>>

\* the last tab was active and was closed, and documents remain
C8_Witness ==
  /\ wop.name = "close_active"
  /\ wpre.active_index = Len(wpre.buffers) - 1
  /\ has_files(workspace)

\* C9: close_active returns true exactly when it removed the last remaining
\* document, and has_files() is then false; when it returns false,
\* has_files() tells whether documents remain.
C9_CloseReportsBecameEmpty ==
  wop.name = "close_active" =>
    /\ wret <=> Len(wpre.buffers) = 1
    /\ wret => ~has_files(workspace)
    /\ ~wret => (has_files(workspace) <=> Len(wpre.buffers) >= 2)

\* the only document was closed
C9_Witness ==
  /\ wop.name = "close_active"
  /\ wret
  /\ ~has_files(workspace)

\* C10: with two or more documents next_tab then prev_tab, and prev_tab then
\* next_tab, bring active_index back to where it was; next_tab called n
\* times in a row on n documents does too; with no or one document neither
\* call changes anything.
C10_NextPrevInverse ==
  /\ (wop2.name = "next_tab" /\ wop.name = "prev_tab") => workspace = wpre2
  /\ (wop2.name = "prev_tab" /\ wop.name = "next_tab") => workspace = wpre2
  /\ (Len(workspace.buffers) >= 2 /\ nexts = Len(workspace.buffers)) =>
       workspace.active_index = nexts_from
  /\ (wop.name \in {"next_tab", "prev_tab"} /\ Len(wpre.buffers) <= 1) =>
       workspace = wpre

\* next_tab wrapped from the last of three tabs to the first, and prev_tab
\* went back
C10_Witness ==
  /\ wop2.name = "next_tab"
  /\ wop.name = "prev_tab"
  /\ Len(workspace.buffers) = 3
  /\ wpre2.active_index = 2
  /\ wpre.active_index = 0

\* next_tab went once round three tabs
C10_WitnessCycle ==
  /\ nexts = 3
  /\ Len(workspace.buffers) = 3

(***************************************************************************)
(* Sidebar (src/src/sidebar.rs).  A name is a sequence of characters; a    *)
(* path is the number of a node of the directory tree on disk, so that two *)
(* paths are equal exactly when they name the same node.                   *)
(***************************************************************************)
\* longest query typed into the sidebar's search line
MaxQuery == 2

\* the width Sidebar::new gives the sidebar
SidebarWidth == 30

\* the characters of names and queries in code point order
CharOrder == <<".", "/", "A", "B", "a", "b", "e", "g", "r", "t">>
char_rank(c) == CHOOSE i \in 1..Len(CharOrder) : CharOrder[i] = c

\* char::to_lowercase
char_to_lowercase(c) == IF c = "A" THEN "a" ELSE IF c = "B" THEN "b" ELSE c

\* str::to_lowercase
to_lowercase(s) == [i \in 1..Len(s) |-> char_to_lowercase(s[i])]

\* Ord for str: a < b, compared character by character
str_lt(a, b) ==
  \E k \in 1..(Len(b)) :
    /\ \A j \in 1..(k - 1) : j <= Len(a) /\ a[j] = b[j]
    /\ \/ k = Len(a) + 1
       \/ k <= Len(a) /\ char_rank(a[k]) < char_rank(b[k])

\* str::contains: needle occurs in hay as a contiguous run
str_contains(hay, needle) ==
  \E i \in 0..(Len(hay) - Len(needle)) :
    \A k \in 1..Len(needle) : hay[i + k] = needle[k]

\* the directory tree on disk: node 0 is the root the sidebar is opened on;
\* `children` lists a directory in the order read_dir yields it
Disk ==
  [n \in 0..6 |->
    CASE n = 0 -> [name |-> <<>>, is_dir |-> TRUE,
                   children |-> <<1, 5, 3, 6>>]
      [] n = 1 -> [name |-> <<"B", "a">>, is_dir |-> FALSE, children |-> <<>>]
      [] n = 2 -> [name |-> <<"a">>, is_dir |-> FALSE, children |-> <<>>]
      [] n = 3 -> [name |-> <<"A">>, is_dir |-> TRUE, children |-> <<4>>]
      [] n = 4 -> [name |-> <<"b">>, is_dir |-> TRUE, children |-> <<2>>]
      [] n = 5 -> [name |-> <<".", "a">>, is_dir |-> FALSE, children |-> <<>>]
      [] n = 6 -> [name |-> <<"t", "a", "r", "g", "e", "t">>, is_dir |-> TRUE,
                   children |-> <<>>]]

\* fs::read_dir(path): the items of a directory, nothing for a file
read_dir(path) == IF Disk[path].is_dir THEN Disk[path].children ELSE <<>>

\* the comparator of build_tree: directories first, then by lowercased name
item_less(a, b) ==
  \/ Disk[a].is_dir /\ ~Disk[b].is_dir
  \/ /\ Disk[a].is_dir = Disk[b].is_dir
     /\ str_lt(to_lowercase(Disk[a].name), to_lowercase(Disk[b].name))

\* Vec::sort_by, a stable sort: each item goes after the items not greater
RECURSIVE sort_items(_)
sort_items(items) ==
  IF items = <<>> THEN <<>>
  ELSE LET n == Len(items)
           done == sort_items(SubSeq(items, 1, n - 1))
           x == items[n]
           at == Cardinality({i \in 1..Len(done) : ~item_less(x, done[i])})
       IN vec_insert(done, at, x)

\* the names build_tree leaves out
skipped(name) ==
  \/ Len(name) > 0 /\ name[1] = "."
  \/ name = <<"t", "a", "r", "g", "e", "t">>
  \/ name = <<"n", "o", "d", "e", "_", "m", "o", "d", "u", "l", "e", "s">>

\* Sidebar::build_tree(path, depth)
build_tree(path, depth) ==
  LET items == sort_items(read_dir(path))
      kept == SelectSeq(items, LAMBDA i : ~skipped(Disk[i].name))
  IN [k \in 1..Len(kept) |->
        [name |-> Disk[kept[k]].name, path |-> kept[k],
         is_dir |-> Disk[kept[k]].is_dir, children |-> <<>>,
         expanded |-> FALSE, depth |-> depth]]

\* the FlatEntry pushed for a FileEntry
flat_of(entry) ==
  [name |-> entry.name, path |-> entry.path, is_dir |-> entry.is_dir,
   depth |-> entry.depth, expanded |-> entry.expanded]

\* Sidebar::flatten_entries: what it appends to flat_cache
RECURSIVE flatten_entries(_)
flatten_entries(entries) ==
  IF entries = <<>> THEN <<>>
  ELSE LET entry == Head(entries) IN
       <<flat_of(entry)>>
       \o (IF entry.is_dir /\ entry.expanded
           THEN flatten_entries(entry.children) ELSE <<>>)
       \o flatten_entries(Tail(entries))

\* flatten_entries_filtered that looks below matching directories only
RECURSIVE flatten_entries_filtered_prune(_, _)
flatten_entries_filtered_prune(entries, query) ==
  IF entries = <<>> THEN <<>>
  ELSE LET entry == Head(entries)
           matches == str_contains(to_lowercase(entry.name), query)
       IN (IF matches THEN <<flat_of(entry)>> ELSE <<>>)
          \o (IF matches /\ entry.is_dir /\ entry.expanded
              THEN flatten_entries_filtered_prune(entry.children, query)
              ELSE <<>>)
          \o flatten_entries_filtered_prune(Tail(entries), query)

\* Sidebar::flatten_entries_filtered: what it appends to flat_cache
RECURSIVE flatten_entries_filtered(_, _)
flatten_entries_filtered(entries, query) ==
  IF entries = <<>> THEN <<>>
  ELSE LET entry == Head(entries)
           matches == str_contains(to_lowercase(entry.name), query)
       IN (IF matches \/ entry.is_dir
           THEN (IF matches THEN <<flat_of(entry)>> ELSE <<>>)
                \o (IF entry.is_dir /\ entry.expanded
                    THEN flatten_entries_filtered(entry.children, query)
                    ELSE <<>>)
           ELSE <<>>)
          \o flatten_entries_filtered(Tail(entries), query)

\* Sidebar::rebuild_flat_cache
rebuild_flat_cache(s) ==
  [s EXCEPT !.flat_cache =
              IF s.search_query = <<>>
              THEN flatten_entries(s.entries)
              ELSE flatten_entries_filtered(s.entries,
                                            to_lowercase(s.search_query)),
            !.cache_dirty = FALSE]

\* Sidebar::new(root_path)
Sidebar_new(root_path) ==
  rebuild_flat_cache(
    [root_path |-> root_path, entries |-> build_tree(root_path, 0),
     selected_index |-> 0, visible |-> TRUE, width |-> SidebarWidth,
     search_query |-> <<>>, search_active |-> FALSE,
     flat_cache |-> <<>>, cache_dirty |-> TRUE])

\* Sidebar::flat_entries / flat_len: the sidebar after the read; the list
\* and its length are then s.flat_cache and Len(s.flat_cache)
flat_entries(s) == IF s.cache_dirty THEN rebuild_flat_cache(s) ELSE s
flat_len(s) == IF s.cache_dirty THEN rebuild_flat_cache(s) ELSE s

\* Sidebar::toggle_visible
toggle_visible(s) == [s EXCEPT !.visible = ~s.visible]

\* select_next that does not stop at the last row
select_next_unbounded(s) ==
  LET r == flat_len(s) IN [r EXCEPT !.selected_index = r.selected_index + 1]

\* Sidebar::select_next
select_next(s) ==
  LET r == flat_len(s)
      len == Len(r.flat_cache)
  IN IF len > 0 /\ r.selected_index < len - 1
     THEN [r EXCEPT !.selected_index = r.selected_index + 1]
     ELSE r

\* Sidebar::select_prev
select_prev(s) ==
  IF s.selected_index > 0
  THEN [s EXCEPT !.selected_index = s.selected_index - 1]
  ELSE s

\* Sidebar::get_selected_path: [s, ret], ret <<>> for None, <<path>> for Some
get_selected_path(s) ==
  LET r == flat_entries(s) IN
  [s |-> r,
   ret |-> IF r.selected_index < Len(r.flat_cache)
           THEN <<r.flat_cache[r.selected_index + 1].path>> ELSE <<>>]

\* Sidebar::is_selected_dir: [s, ret]
is_selected_dir(s) ==
  LET r == flat_entries(s) IN
  [s |-> r,
   ret |-> r.selected_index < Len(r.flat_cache)
           /\ r.flat_cache[r.selected_index + 1].is_dir]

\* Sidebar::toggle_dir_in_tree(entries, target): [entries, ret]
RECURSIVE toggle_dir_in_tree(_, _)
toggle_dir_in_tree(entries, target) ==
  IF entries = <<>> THEN [entries |-> <<>>, ret |-> FALSE]
  ELSE LET entry == Head(entries) IN
       IF entry.path = target /\ entry.is_dir
       THEN LET expanded == ~entry.expanded
                children == IF expanded /\ entry.children = <<>>
                            THEN build_tree(entry.path, entry.depth + 1)
                            ELSE entry.children
            IN [entries |-> <<[entry EXCEPT !.expanded = expanded,
                                            !.children = children]>>
                            \o Tail(entries),
                ret |-> TRUE]
       ELSE LET below == IF entry.is_dir /\ entry.expanded
                         THEN toggle_dir_in_tree(entry.children, target)
                         ELSE [entries |-> entry.children, ret |-> FALSE]
            IN IF below.ret
               THEN [entries |-> <<[entry EXCEPT !.children = below.entries]>>
                                 \o Tail(entries),
                     ret |-> TRUE]
               ELSE LET rest == toggle_dir_in_tree(Tail(entries), target)
                    IN [entries |-> <<entry>> \o rest.entries,
                        ret |-> rest.ret]

\* Sidebar::toggle_selected_dir
toggle_selected_dir(s) ==
  LET r == IF s.cache_dirty THEN rebuild_flat_cache(s) ELSE s IN
  IF r.selected_index < Len(r.flat_cache)
     /\ r.flat_cache[r.selected_index + 1].is_dir
  THEN rebuild_flat_cache(
         [r EXCEPT !.entries =
            toggle_dir_in_tree(r.entries,
                               r.flat_cache[r.selected_index + 1].path).entries,
                   !.cache_dirty = TRUE])
  ELSE r

\* Sidebar::set_search_query
set_search_query(s, query) ==
  [s EXCEPT !.search_query = query, !.cache_dirty = TRUE,
            !.selected_index = 0]

\* Sidebar::clear_search
clear_search(s) ==
  [s EXCEPT !.search_query = <<>>, !.search_active = FALSE,
            !.cache_dirty = TRUE, !.selected_index = 0]

\* Sidebar::sidebar_offset
sidebar_offset(s) == IF s.visible THEN s.width ELSE 0

\* Option<Sidebar>::map(|s| s.sidebar_offset()).unwrap_or(0)
sidebar_w(e) ==
  IF e.sidebar = <<>> THEN 0 ELSE sidebar_offset(e.sidebar[1])

(***************************************************************************)
(* Display (src/src/display.rs) and the terminal.  The terminal's cursor   *)
(* is the field `cursor` of the editor record: [col, row], 0-based, as     *)
(* cursor::position() reports it.  The terminal keeps its size.            *)
(***************************************************************************)
\* what terminal::size() returns: room for the sidebar, a gutter of three
\* columns and two columns of text; a tab bar, two content rows, a status bar
TermColumns == 35
TermRows == 4

Min(a, b) == IF a < b THEN a ELSE b

\* u16::saturating_sub
saturating_sub(a, b) == IF a > b THEN a - b ELSE 0

\* Display::new(); cursor_line, cursor_column and file_size, which only the
\* status bar shows, are left out of the record
Display_new ==
  [file_matrix |-> << <<>> >>, columns |-> TermColumns, rows |-> TermRows,
   initial_row |-> 0, initial_column |-> 0, mode |-> "NORMAL",
   modified |-> FALSE, filename |-> 0, sidebar_width |-> 0,
   tab_names |-> <<>>, show_welcome |-> FALSE, show_cursor |-> TRUE]

\* Display::content_width
content_width(d) == saturating_sub(d.columns, d.sidebar_width)

\* n.to_string().chars().count(): the characters of n written in decimal
RECURSIVE to_string_count(_)
to_string_count(n) == IF n < 10 THEN 1 ELSE 1 + to_string_count(n \div 10)

\* Display::offset_lines_number from the number of the last line
offset_lines_number_of_last(d) ==
  to_string_count(Len(d.file_matrix) - 1) + 2

\* Display::offset_lines_number
offset_lines_number(d) == to_string_count(Len(d.file_matrix)) + 2

\* Display::next_row that stops one row later
next_row_late(d) ==
  IF d.initial_row
       > saturating_sub(Len(d.file_matrix), saturating_sub(d.rows, 2))
  THEN d
  ELSE [d EXCEPT !.initial_row = d.initial_row + 1]

\* Display::next_row
next_row(d) ==
  IF d.initial_row
       >= saturating_sub(Len(d.file_matrix), saturating_sub(d.rows, 2))
  THEN d
  ELSE [d EXCEPT !.initial_row = d.initial_row + 1]

\* Display::previous_row
previous_row(d) ==
  IF d.initial_row > 0 THEN [d EXCEPT !.initial_row = d.initial_row - 1]
  ELSE d

\* Display::next_column, column_position being the cursor's column
next_column(d, column_position) ==
  IF column_position >= d.sidebar_width + content_width(d) - 1
  THEN [d EXCEPT !.initial_column = d.initial_column + 1]
  ELSE d

\* Display::previous_column, column_position being the cursor's column
previous_column(d, column_position) ==
  IF column_position <= d.sidebar_width + offset_lines_number(d)
     /\ d.initial_column > 0
  THEN [d EXCEPT !.initial_column = d.initial_column - 1]
  ELSE d

\* Display::get_absolute_row that counts screen rows from the tab bar
get_absolute_row_from_tab_bar(d, screen_row) ==
  d.initial_row + screen_row

\* Display::get_absolute_row
get_absolute_row(d, screen_row) ==
  d.initial_row + saturating_sub(screen_row, 1)

\* Display::get_cursor_position, column_position being the cursor's column
get_cursor_position(d, column_position) ==
  d.initial_column
  + saturating_sub(column_position, d.sidebar_width + offset_lines_number(d))

\* Display::content_top_row
content_top_row == 1

\* cursor::MoveTo: the terminal keeps the cursor on the screen
MoveTo(e, col, row) ==
  [e EXCEPT !.cursor = [col |-> Min(col, e.display.columns - 1),
                        row |-> Min(row, e.display.rows - 1)]]

\* cursor::MoveUp, MoveDown, MoveLeft, MoveRight
MoveUp(e, n) == [e EXCEPT !.cursor.row = saturating_sub(e.cursor.row, n)]
MoveDown(e, n) ==
  [e EXCEPT !.cursor.row = Min(e.cursor.row + n, e.display.rows - 1)]
MoveLeft(e, n) == [e EXCEPT !.cursor.col = saturating_sub(e.cursor.col, n)]
MoveRight(e, n) ==
  [e EXCEPT !.cursor.col = Min(e.cursor.col + n, e.display.columns - 1)]

\* Display::show_display: the sidebar's list is read when it is drawn; the
\* cursor goes back to where it was on the welcome screen and when it is
\* shown, and stays behind the status bar otherwise
show_display(e) ==
  LET drawn == IF e.sidebar # <<>> /\ e.sidebar[1].visible
               THEN [e EXCEPT !.sidebar = <<flat_entries(e.sidebar[1])>>]
               ELSE e
  IN IF drawn.display.show_welcome \/ drawn.display.show_cursor
     THEN drawn
     ELSE MoveTo(drawn, drawn.display.columns - 1, drawn.display.rows - 1)

(***************************************************************************)
(* Editor (src/src/editor.rs).  The sidebar is an Option: <<>> for None,   *)
(* <<s>> for Some(s).                                                      *)
(***************************************************************************)
\* Workspace::tab_names
tab_names(w) ==
  [i \in 1..Len(w.buffers) |->
     <<w.buffers[i].filename, i - 1 = w.active_index, w.buffers[i].modified>>]

\* Editor::new(workspace, sidebar), on a terminal whose cursor is at the
\* top left corner
Editor_new(w, sidebar) ==
  [workspace |-> w, display |-> Display_new, sidebar |-> sidebar,
   mode |-> "Normal",
   focus |-> IF sidebar # <<>> /\ sidebar[1].visible /\ ~has_files(w)
             THEN "Sidebar" ELSE "Editor",
   show_welcome |-> ~has_files(w),
   search_mode |-> FALSE, search_query |-> <<>>,
   search_saved_row |-> 0, search_saved_col |-> 0,
   search_saved_initial_row |-> 0, search_saved_initial_col |-> 0,
   cursor |-> [col |-> 0, row |-> 0],
   renders |-> 0, exit |-> "none"]

\* sync_display that leaves the lines of the display as they were
sync_display_stale_lines(e) ==
  LET d0 == [e.display EXCEPT !.sidebar_width = sidebar_w(e),
                              !.show_welcome = e.show_welcome]
      a == active(e.workspace)
      d1 == IF a # <<>>
            THEN [d0 EXCEPT !.filename = a[1].filename,
                            !.modified = a[1].modified,
                            !.initial_row = a[1].initial_row,
                            !.initial_column = a[1].initial_column]
            ELSE d0
  IN [e EXCEPT !.display =
        [d1 EXCEPT !.tab_names = tab_names(e.workspace),
                   !.mode = IF e.mode = "Insert" THEN "INSERT" ELSE "NORMAL",
                   !.show_cursor = e.focus = "Editor"
                                   /\ has_files(e.workspace)]]

\* Editor::sync_display
sync_display(e) ==
  LET d0 == [e.display EXCEPT !.sidebar_width = sidebar_w(e),
                              !.show_welcome = e.show_welcome]
      a == active(e.workspace)
      d1 == IF a # <<>>
            THEN [d0 EXCEPT !.file_matrix = a[1].file_matrix,
                            !.filename = a[1].filename,
                            !.modified = a[1].modified,
                            !.initial_row = a[1].initial_row,
                            !.initial_column = a[1].initial_column]
            ELSE d0
  IN [e EXCEPT !.display =
        [d1 EXCEPT !.tab_names = tab_names(e.workspace),
                   !.mode = IF e.mode = "Insert" THEN "INSERT" ELSE "NORMAL",
                   !.show_cursor = e.focus = "Editor"
                                   /\ has_files(e.workspace)]]

\* Editor::render; the field `renders` counts the calls
render(e) == [show_display(e) EXCEPT !.renders = @ + 1]

\* Editor::update_status
update_status(e) ==
  IF ~has_files(e.workspace) THEN e
  ELSE LET a == active(e.workspace)
           d == e.display
       IN [e EXCEPT !.display =
             [d EXCEPT !.modified = IF a # <<>> THEN a[1].modified
                                    ELSE d.modified]]

\* Editor::position_cursor_at_start
position_cursor_at_start(e) ==
  MoveTo(e, sidebar_w(e) + offset_lines_number(e.display), content_top_row)

\* Editor::toggle_sidebar
toggle_sidebar(e) ==
  IF e.sidebar = <<>> THEN e
  ELSE LET s == e.sidebar[1] IN
       IF s.visible /\ e.focus = "Editor"
       THEN [e EXCEPT !.focus = "Sidebar"]
       ELSE IF s.visible /\ e.focus = "Sidebar"
       THEN [e EXCEPT !.sidebar = <<toggle_visible(s)>>, !.focus = "Editor"]
       ELSE [e EXCEPT !.sidebar = <<toggle_visible(s)>>, !.focus = "Sidebar"]

\* the '/' key of handle_sidebar_input: the search line opens, empty
slash_key(s) == [s EXCEPT !.search_active = TRUE, !.search_query = <<>>]

\* Editor::handle_sidebar_input(key), key being [code, ch, ...]
handle_sidebar_input(e, k) ==
  IF e.sidebar = <<>> \/ ~e.sidebar[1].visible
  THEN [e EXCEPT !.focus = "Editor"]
  ELSE LET s == e.sidebar[1]
           with(t) == [e EXCEPT !.sidebar = <<t>>]
           to_editor == LET f == [e EXCEPT !.focus = "Editor"] IN
                        IF has_files(f.workspace)
                        THEN position_cursor_at_start(f) ELSE f
       IN
  IF s.search_active
  THEN CASE k.code = "Esc" -> with(clear_search(s))
         [] k.code = "Enter" -> with([s EXCEPT !.search_active = FALSE])
         [] k.code = "Char" ->
              with(set_search_query(s, Append(s.search_query, k.ch)))
         [] k.code = "Backspace" ->
              with(set_search_query(s,
                     SubSeq(s.search_query, 1, Len(s.search_query) - 1)))
         [] OTHER -> e
  ELSE CASE k.code = "Up" -> with(select_prev(s))
         [] k.code = "Down" -> with(select_next(s))
         [] k.code = "Enter" ->
              LET dir == is_selected_dir(s) IN
              IF dir.ret THEN with(toggle_selected_dir(dir.s))
              ELSE LET sel == get_selected_path(dir.s) IN
                   IF sel.ret # <<>>
                   THEN position_cursor_at_start(render(sync_display(
                          [e EXCEPT !.sidebar = <<sel.s>>,
                                    !.workspace =
                                       open_file(e.workspace, sel.ret[1]),
                                    !.show_welcome = FALSE,
                                    !.focus = "Editor",
                                    !.mode = "Normal"])))
                   ELSE with(sel.s)
         [] k.code = "Right" -> to_editor
         [] k.code = "Left" ->
              LET dir == is_selected_dir(s) IN
              IF dir.ret THEN with(toggle_selected_dir(dir.s))
              ELSE with(dir.s)
         [] k.code = "Esc" -> to_editor
         [] k.code = "Char" /\ k.ch = "/" -> with(slash_key(s))
         [] OTHER -> e

\* the active buffer replaced by b (Workspace::active_mut)
with_active(e, b) ==
  [e EXCEPT !.workspace.buffers[e.workspace.active_index + 1] = b]

\* Editor::handle_navigation(key_code, column_position, row_position,
\* row_size), the positions being the cursor's: [e, ret]
handle_navigation(e, code) ==
  LET d == e.display
      column_position == e.cursor.col
      row_position == e.cursor.row
      content_bottom == saturating_sub(d.rows, 2)
      offset == sidebar_w(e) + offset_lines_number(d)
      done(r) == [e |-> r, ret |-> TRUE]
  IN CASE code = "Up" ->
            done(IF row_position > content_top_row THEN MoveUp(e, 1)
                 ELSE [e EXCEPT !.display = previous_row(d)])
       [] code = "Down" ->
            done(IF row_position < content_bottom THEN MoveDown(e, 1)
                 ELSE [e EXCEPT !.display = next_row(d)])
       [] code = "Right" ->
            done(MoveRight([e EXCEPT !.display =
                              next_column(d, column_position)], 1))
       [] code = "Left" ->
            done(IF column_position > offset THEN MoveLeft(e, 1)
                 ELSE [e EXCEPT !.display =
                         previous_column(d, column_position)])
       [] code = "Home" ->
            done(MoveTo([e EXCEPT !.display.initial_column = 0],
                        offset, row_position))
       [] code = "End" ->
            LET a == active(e.workspace) IN
            IF a = <<>> THEN done(e)
            ELSE LET line_len ==
                       get_line_length(a[1],
                                       get_absolute_row(d, row_position))
                     visible_area == saturating_sub(d.columns, offset)
                 IN done(IF line_len <= visible_area
                         THEN MoveTo([e EXCEPT !.display.initial_column = 0],
                                     offset + line_len, row_position)
                         ELSE MoveTo([e EXCEPT !.display.initial_column =
                                        saturating_sub(line_len, visible_area)],
                                     d.columns - 1, row_position))
       [] OTHER -> [e |-> e, ret |-> FALSE]

\* handle_normal_mode that marks the document modified at any other letter
handle_normal_mode_marks(e, k) ==
  LET n == handle_navigation(e, k.code)
      a == active(e.workspace)
  IN IF n.ret THEN n.e
     ELSE IF k.code = "Char" /\ k.ch = "i"
     THEN [e EXCEPT !.mode = "Insert", !.display.mode = "INSERT"]
     ELSE IF k.code = "Char" /\ a # <<>>
     THEN with_active(e, [a[1] EXCEPT !.modified = TRUE])
     ELSE e

\* Editor::handle_normal_mode
handle_normal_mode(e, k) ==
  LET n == handle_navigation(e, k.code) IN
  IF n.ret THEN n.e
  ELSE IF k.code = "Char" /\ k.ch = "i"
  THEN [e EXCEPT !.mode = "Insert", !.display.mode = "INSERT"]
  ELSE e

\* Editor::handle_insert_mode
handle_insert_mode(e, k) ==
  IF k.code = "Esc"
  THEN [e EXCEPT !.mode = "Normal", !.display.mode = "NORMAL"]
  ELSE
  LET n == handle_navigation(e, k.code) IN
  IF n.ret THEN n.e
  ELSE
  LET d == e.display
      column_position == e.cursor.col
      row_position == e.cursor.row
      absolute_row == get_absolute_row(d, row_position)
      cursor_col == get_cursor_position(d, column_position)
      offset == sidebar_w(e) + offset_lines_number(d)
      a == active(e.workspace)
      edited(b) == [with_active(e, b) EXCEPT
                      !.display.file_matrix = b.file_matrix]
  IN CASE k.code = "Char" ->
            LET w == IF a = <<>> THEN e
                     ELSE edited(add_char(a[1], k.ch, cursor_col,
                                          absolute_row))
            IN MoveRight([w EXCEPT !.display =
                            next_column(w.display, column_position)], 1)
       [] k.code = "Backspace" ->
            LET r == IF a = <<>> THEN [b |-> <<>>, ret |-> FALSE]
                     ELSE remove_char(a[1], cursor_col, absolute_row)
                w == IF a = <<>> THEN e ELSE edited(r.b)
            IN IF r.ret
               THEN (IF row_position > content_top_row THEN MoveUp(w, 1)
                     ELSE [w EXCEPT !.display = previous_row(w.display)])
               ELSE IF cursor_col > 0
               THEN LET v == [w EXCEPT !.display =
                                previous_column(w.display, column_position)]
                    IN IF column_position
                            > sidebar_w(v) + offset_lines_number(v.display)
                       THEN MoveLeft(v, 1) ELSE v
               ELSE w
       [] k.code = "Enter" ->
            LET w == IF a = <<>> THEN e
                     ELSE edited(split_line(a[1], cursor_col, absolute_row))
                o == sidebar_w(w) + offset_lines_number(w.display)
                v == [w EXCEPT !.display.initial_column = 0]
            IN IF row_position < saturating_sub(d.rows, 2)
               THEN MoveTo(v, o, row_position + 1)
               ELSE MoveTo([v EXCEPT !.display = next_row(v.display)],
                           o, row_position)
       [] OTHER -> e

\* Editor::save_cursor_state
save_cursor_state(e) ==
  LET a == active(e.workspace) IN
  IF a = <<>> THEN e
  ELSE with_active(e,
         [a[1] EXCEPT
            !.cursor_row = saturating_sub(e.cursor.row, content_top_row),
            !.cursor_col = get_cursor_position(e.display, e.cursor.col),
            !.initial_row = e.display.initial_row,
            !.initial_column = e.display.initial_column])

\* Editor::restore_cursor_state
restore_cursor_state(e) ==
  LET a == active(e.workspace) IN
  IF a = <<>> THEN e
  ELSE [e EXCEPT !.display.initial_row = a[1].initial_row,
                 !.display.initial_column = a[1].initial_column]

\* Editor::handle_tab_switch
handle_tab_switch(e, k) ==
  IF ~has_files(e.workspace) THEN e
  ELSE LET saved == save_cursor_state(e)
           switched == [saved EXCEPT !.workspace =
                          IF k.code = "BackTab" THEN prev_tab(saved.workspace)
                          ELSE next_tab(saved.workspace)]
           shown == render(sync_display(restore_cursor_state(switched)))
           a == active(shown.workspace)
       IN IF a = <<>> THEN shown
          ELSE MoveTo(shown,
                      sidebar_w(shown) + offset_lines_number(shown.display)
                        + a[1].cursor_col,
                      content_top_row + a[1].cursor_row)

\* the prompt of Editor::handle_open_file (" Abrir arquivo: ")
OpenPromptLen == 16

\* handle_open_file that leaves show_welcome as it was
handle_open_file_keeps_welcome(e, path) ==
  LET prompted == MoveTo(e, OpenPromptLen, e.display.rows - 1) IN
  IF path # <<>>
  THEN position_cursor_at_start(render(sync_display(
         [prompted EXCEPT !.workspace = open_file(e.workspace, path[1]),
                          !.mode = "Normal",
                          !.focus = "Editor"])))
  ELSE render(sync_display(prompted))

\* Editor::handle_open_file.  The prompt reads its own keys; `path` is what
\* came of them: <<p>> when Enter was pressed on the name of the existing
\* file p, <<>> when Esc was pressed before anything was typed.
handle_open_file(e, path) ==
  LET prompted == MoveTo(e, OpenPromptLen, e.display.rows - 1) IN
  IF path # <<>>
  THEN position_cursor_at_start(render(sync_display(
         [prompted EXCEPT !.workspace = open_file(e.workspace, path[1]),
                          !.show_welcome = FALSE,
                          !.mode = "Normal",
                          !.focus = "Editor"])))
  ELSE render(sync_display(prompted))

\* the prompt of Editor::confirm_quit
\* (" Arquivos modificados! (s)alvar, (n)ão salvar, (c)ancelar: ")
QuitPromptLen == 59

\* Editor::confirm_quit: the prompt has been written on the last row
confirm_quit(e) == MoveTo(e, QuitPromptLen, e.display.rows - 1)

\* Workspace::is_any_modified
is_any_modified(w) == \E i \in 1..Len(w.buffers) : w.buffers[i].modified

\* Workspace::save_active: [w, ret], ret being is_ok
save_active(w, write_ok) ==
  IF active(w) = <<>> THEN [w |-> w, ret |-> TRUE]
  ELSE LET saved == save(active(w)[1], write_ok)
       IN [w |-> [w EXCEPT !.buffers[w.active_index + 1] = saved.b],
           ret |-> saved.ret]

\* Ctrl+S in Editor::run.  The field `exit` says how run was left: "none"
\* while its loop runs, "quit" when the loop was left by break, "error"
\* when `?` returned an error from run.
save_key(e, write_ok) ==
  LET saved == save_active(e.workspace, write_ok) IN
  IF saved.ret THEN render(sync_display([e EXCEPT !.workspace = saved.w]))
  ELSE [e EXCEPT !.workspace = saved.w, !.exit = "error"]

\* handle_quit that takes every answer but Save for Discard
handle_quit_no_cancel(e, answer, write_ok) ==
  IF ~is_any_modified(e.workspace) \/ answer # "Save" \/ write_ok
  THEN [e EXCEPT !.exit = "quit"]
  ELSE [confirm_quit(e) EXCEPT !.exit = "error"]

\* Editor::handle_quit, with the answer given to confirm_quit when it asks
\* and whether the writes of save succeed
handle_quit(e, answer, write_ok) ==
  IF ~is_any_modified(e.workspace) THEN [e EXCEPT !.exit = "quit"]
  ELSE CASE answer = "Save" ->
              IF write_ok
              THEN [confirm_quit(e) EXCEPT
                      !.workspace.buffers =
                         [i \in 1..Len(e.workspace.buffers) |->
                            IF e.workspace.buffers[i].modified
                            THEN save(e.workspace.buffers[i], TRUE).b
                            ELSE e.workspace.buffers[i]],
                      !.exit = "quit"]
              ELSE [confirm_quit(e) EXCEPT !.exit = "error"]
         [] answer = "Discard" -> [confirm_quit(e) EXCEPT !.exit = "quit"]
         [] OTHER -> render(sync_display(confirm_quit(e)))

\* Editor::handle_close_tab, with the answer given to confirm_quit when it
\* asks and whether the write of save succeeds
handle_close_tab(e, answer, write_ok) ==
  LET a == active(e.workspace)
      asked == a # <<>> /\ a[1].modified
      prompted == IF asked THEN confirm_quit(e) ELSE e
      saved == IF asked /\ answer = "Save"
               THEN save_active(e.workspace, write_ok)
               ELSE [w |-> e.workspace, ret |-> TRUE]
      closed == close_active(saved.w)
  IN IF ~has_files(e.workspace) THEN e
     ELSE IF asked /\ answer = "Cancel" THEN render(sync_display(prompted))
     ELSE IF ~saved.ret THEN [prompted EXCEPT !.exit = "error"]
     ELSE position_cursor_at_start(render(sync_display(
            [prompted EXCEPT
               !.workspace = closed.w,
               !.show_welcome = IF closed.ret \/ ~has_files(closed.w)
                                THEN TRUE ELSE @,
               !.display.initial_column = 0,
               !.display.initial_row = 0])))

\* Editor::jump_to_position
jump_to_position(e, file_row, file_col) ==
  LET d == e.display
      content_rows == saturating_sub(d.rows, 2)
      line_nr_w == offset_lines_number(d)
      text_offset == sidebar_w(e) + line_nr_w
      content_w == saturating_sub(content_width(d), line_nr_w)
      initial_row == IF file_row < d.initial_row
                        \/ file_row >= d.initial_row + content_rows
                     THEN saturating_sub(file_row, content_rows \div 2)
                     ELSE d.initial_row
      initial_column == IF file_col < d.initial_column
                           \/ file_col >= d.initial_column + content_w
                        THEN saturating_sub(file_col, 5)
                        ELSE d.initial_column
      screen_row == 1 + saturating_sub(file_row, initial_row)
      screen_col == text_offset + saturating_sub(file_col, initial_column)
  IN MoveTo(render(sync_display(
              [e EXCEPT !.display.initial_row = initial_row,
                        !.display.initial_column = initial_column])),
            screen_col, screen_row)

\* the query occurs in line_lower at column col (0-based)
matches_at(line_lower, col, query) ==
  \A k \in 1..Len(query) : line_lower[col + k] = query[k]

\* the (offset, col) pairs the loop of navigate_to_next_match tests, for a
\* scan that starts on current_row at search_col
scanned(file_matrix, query, current_row, search_col) ==
  LET total_lines == Len(file_matrix) IN
  UNION {LET line == file_matrix[((current_row + offset) % total_lines) + 1]
             start_col == IF offset = 0 THEN search_col ELSE 0
         IN IF Len(line) >= Len(query)
            THEN {<<offset, col>> :
                    col \in start_col..saturating_sub(Len(line), Len(query))}
            ELSE {} :
         offset \in 0..(total_lines - 1)}

\* navigate_to_next_match that goes to the top of the document when the
\* query is not found
navigate_to_next_match_or_top(e) ==
  LET query == to_lowercase(e.search_query)
      a == active(e.workspace)
  IN IF query = <<>> \/ a = <<>>
     THEN [e |-> e, nav |-> [did |-> "empty", row |-> 0, col |-> 0]]
     ELSE
     LET m == a[1].file_matrix
         total_lines == Len(m)
         current_row == get_absolute_row(e.display, e.cursor.row)
         current_col == get_cursor_position(e.display, e.cursor.col)
         hits == {oc \in scanned(m, query, current_row, current_col + 1) :
                    matches_at(
                      to_lowercase(m[((current_row + oc[1]) % total_lines) + 1]),
                      oc[2], query)}
     IN IF hits = {}
        THEN [e |-> jump_to_position(e, 0, 0),
              nav |-> [did |-> "miss", row |-> 0, col |-> 0]]
        ELSE LET first == CHOOSE h \in hits : \A g \in hits :
                            \/ h[1] < g[1]
                            \/ h[1] = g[1] /\ h[2] <= g[2]
                 row_idx == (current_row + first[1]) % total_lines
             IN [e |-> jump_to_position(e, row_idx, first[2]),
                 nav |-> [did |-> "jump", row |-> row_idx, col |-> first[2]]]

\* Editor::navigate_to_next_match: [e, nav]
navigate_to_next_match(e) ==
  LET query == to_lowercase(e.search_query)
      a == active(e.workspace)
  IN IF query = <<>> \/ a = <<>>
     THEN [e |-> e, nav |-> [did |-> "empty", row |-> 0, col |-> 0]]
     ELSE
     LET m == a[1].file_matrix
         total_lines == Len(m)
         current_row == get_absolute_row(e.display, e.cursor.row)
         current_col == get_cursor_position(e.display, e.cursor.col)
         hits == {oc \in scanned(m, query, current_row, current_col + 1) :
                    matches_at(
                      to_lowercase(m[((current_row + oc[1]) % total_lines) + 1]),
                      oc[2], query)}
     IN IF hits = {}
        THEN [e |-> e, nav |-> [did |-> "miss", row |-> 0, col |-> 0]]
        ELSE LET first == CHOOSE h \in hits : \A g \in hits :
                            \/ h[1] < g[1]
                            \/ h[1] = g[1] /\ h[2] <= g[2]
                 row_idx == (current_row + first[1]) % total_lines
             IN [e |-> jump_to_position(e, row_idx, first[2]),
                 nav |-> [did |-> "jump", row |-> row_idx, col |-> first[2]]]

\* Editor::handle_search_input: [e, nav]
handle_search_input(e, k) ==
  CASE k.code = "Esc" ->
         LET r == render(sync_display(
                    [e EXCEPT !.search_mode = FALSE, !.search_query = <<>>,
                              !.display.initial_row =
                                 e.search_saved_initial_row,
                              !.display.initial_column =
                                 e.search_saved_initial_col]))
         IN [e |-> MoveTo(r, e.search_saved_col, e.search_saved_row),
             nav |-> [did |-> "esc", row |-> 0, col |-> 0]]
    [] k.code = "Enter" ->
         LET closed(n) ==
               [e |-> [n.e EXCEPT !.search_mode = FALSE], nav |-> n.nav]
         IN closed(IF e.search_query # <<>> THEN navigate_to_next_match(e)
                   ELSE [e |-> e, nav |-> [did |-> "empty", row |-> 0,
                                           col |-> 0]])
    [] k.code = "Char" ->
         [e |-> [e EXCEPT !.search_query = Append(e.search_query, k.ch)],
          nav |-> NoNav]
    [] k.code = "Backspace" ->
         [e |-> [e EXCEPT !.search_query =
                   SubSeq(e.search_query, 1, Len(e.search_query) - 1)],
          nav |-> NoNav]
    [] OTHER -> [e |-> e, nav |-> NoNav]

\* Editor::render_search_bar: the bar is printed from the sidebar's edge to
\* the last column of the last row, and the cursor stays there
render_search_bar(e) ==
  LET start_col == sidebar_w(e)
      width == saturating_sub(e.display.columns, start_col)
  IN MoveTo(e, IF width > 0 THEN e.display.columns - 1 ELSE start_col,
            e.display.rows - 1)

\* Editor::run, one event of a batch: [e, nav].  The keys that ask or
\* write carry what came of it: Ctrl+O the path, Ctrl+Q and Ctrl+W the
\* answer and write_ok, Ctrl+S write_ok.
handle_event(e, k) ==
  LET plain(r) == [e |-> r, nav |-> NoNav] IN
  IF e.search_mode THEN handle_search_input(e, k)
  ELSE IF k.ctrl /\ k.code = "Char" /\ k.ch = "q"
  THEN [e |-> handle_quit(e, k.answer, k.write_ok),
        nav |-> [did |-> "quit", row |-> 0, col |-> 0,
                 answer |-> IF is_any_modified(e.workspace) THEN k.answer
                            ELSE "none"]]
  ELSE IF k.ctrl /\ k.code = "Char" /\ k.ch = "s"
  THEN [e |-> save_key(e, k.write_ok),
        nav |-> [did |-> "save", row |-> 0, col |-> 0]]
  ELSE IF k.ctrl /\ k.code = "Char" /\ k.ch = "w"
  THEN [e |-> handle_close_tab(e, k.answer, k.write_ok),
        nav |-> [did |-> "close", row |-> 0, col |-> 0,
                 answer |-> IF active(e.workspace) # <<>>
                               /\ active(e.workspace)[1].modified
                            THEN k.answer ELSE "none"]]
  ELSE IF k.ctrl /\ k.code = "Char" /\ k.ch = "t"
  THEN plain(position_cursor_at_start(render(sync_display(
               toggle_sidebar(e)))))
  ELSE IF k.ctrl /\ k.code = "Char" /\ k.ch = "f"
  THEN plain(IF has_files(e.workspace)
             THEN [e EXCEPT !.search_mode = TRUE, !.search_query = <<>>,
                            !.search_saved_col = e.cursor.col,
                            !.search_saved_row = e.cursor.row,
                            !.search_saved_initial_row = e.display.initial_row,
                            !.search_saved_initial_col =
                               e.display.initial_column]
             ELSE e)
  ELSE IF k.ctrl /\ k.code = "Char" /\ k.ch = "o"
  THEN plain(handle_open_file(e, k.path))
  ELSE IF k.ctrl /\ k.code \in {"Tab", "BackTab"}
  THEN plain(handle_tab_switch(e, k))
  ELSE IF e.show_welcome /\ e.focus # "Sidebar" THEN plain(e)
  ELSE IF e.focus = "Sidebar" THEN plain(handle_sidebar_input(e, k))
  ELSE IF ~has_files(e.workspace) THEN plain(e)
  ELSE IF e.mode = "Normal" THEN plain(handle_normal_mode(e, k))
  ELSE plain(handle_insert_mode(e, k))

\* Editor::run, after the last event of a batch
end_of_batch(e) ==
  LET bar(r) == IF r.search_mode THEN render_search_bar(r) ELSE r
  IN bar(render(update_status(e)))

\* Editor::run up to its loop, where the count of renders starts
run_start(e) ==
  [position_cursor_at_start(render(sync_display(e))) EXCEPT !.renders = 0]

\* Editor::run handles event k; the screen is drawn again when k is the
\* last event of its batch and run has not been left.  [e, nav, renders]:
\* the calls of render are counted for the event and the count in e starts
\* again.
run_event(e, k) ==
  LET counted(r, h) ==
        [e |-> [r EXCEPT !.renders = 0], nav |-> h.nav, renders |-> r.renders]
      handled(h) == counted(IF k.last /\ h.e.exit = "none"
                            THEN end_of_batch(h.e) ELSE h.e, h)
  IN handled(handle_event(e, k))

Key(code, last) == [code |-> code, ch |-> "", ctrl |-> FALSE, last |-> last]
CharKey(ch, last) ==
  [code |-> "Char", ch |-> ch, ctrl |-> FALSE, last |-> last]
CtrlKey(ch, last) ==
  [code |-> "Char", ch |-> ch, ctrl |-> TRUE, last |-> last]

(***************************************************************************)
(* SpecSidebar: reditor started on a directory; the keys the sidebar       *)
(* handles, and Ctrl+T.                                                    *)
(***************************************************************************)
\* the characters typed into the sidebar's search line
SidebarChars == {"A", "b"}

SidebarInit ==
  /\ editor = run_start(Editor_new(Workspace_new, <<Sidebar_new(0)>>))
  /\ nav = NoNav
  /\ status = NoStatus
  /\ batch = NoBatch
  /\ file = NoFile
  /\ DocIdle
  /\ WsIdle

SidebarFocused == editor.focus = "Sidebar"

\* an event reaches the editor; this specification keeps no record of it
SidebarEvent(k) ==
  /\ editor.exit = "none"
  /\ editor' = run_event(editor, k).e
  /\ UNCHANGED <<nav, status, batch, file, docvars, wsvars>>

SidebarKey(code, last) ==
  /\ SidebarFocused
  /\ SidebarEvent(Key(code, last))

\* a character typed into the open search line
SidebarChar(ch, last) ==
  /\ SidebarFocused
  /\ editor.sidebar[1].search_active
  /\ Len(editor.sidebar[1].search_query) < MaxQuery
  /\ SidebarEvent(CharKey(ch, last))

\* '/' typed while the search line is closed
SidebarSlash(last) ==
  /\ SidebarFocused
  /\ ~editor.sidebar[1].search_active
  /\ SidebarEvent(CharKey("/", last))

ToggleSidebar(last) == SidebarEvent(CtrlKey("t", last))

SidebarNext ==
  \/ \E code \in {"Up", "Down", "Left", "Right", "Enter", "Esc", "Backspace"},
        last \in BOOLEAN : SidebarKey(code, last)
  \/ \E ch \in SidebarChars, last \in BOOLEAN : SidebarChar(ch, last)
  \/ \E last \in BOOLEAN : SidebarSlash(last)
  \/ \E last \in BOOLEAN : ToggleSidebar(last)

SpecSidebar == SidebarInit /\ [][SidebarNext]_vars

(***************************************************************************)
(* Properties of the sidebar.  An entry of the tree is addressed by its    *)
(* index path: the 1-based positions to follow from the top level.         *)
(***************************************************************************)
RECURSIVE entry_at(_, _)
entry_at(entries, ip) ==
  IF Len(ip) = 1 THEN entries[ip[1]]
  ELSE entry_at(entries[ip[1]].children, Tail(ip))

\* the index paths of all entries held by the tree, loaded children included
RECURSIVE index_paths(_)
index_paths(entries) ==
  UNION {{<<i>>} \cup {<<i>> \o p : p \in index_paths(entries[i].children)} :
         i \in 1..Len(entries)}

\* every proper ancestor of the entry is an expanded directory
ReachableEntry(entries, ip) ==
  \A k \in 1..(Len(ip) - 1) :
    LET above == entry_at(entries, SubSeq(ip, 1, k)) IN
    above.is_dir /\ above.expanded

\* p comes before q in depth-first pre-order
Before(p, q) ==
  \/ Len(p) < Len(q) /\ SubSeq(q, 1, Len(p)) = p
  \/ \E k \in 1..Min(Len(p), Len(q)) :
       /\ SubSeq(p, 1, k - 1) = SubSeq(q, 1, k - 1)
       /\ p[k] < q[k]

\* the rows of the entries at the index paths S, in pre-order
RECURSIVE Listing(_, _)
Listing(entries, S) ==
  IF S = {} THEN <<>>
  ELSE LET first == CHOOSE p \in S : \A q \in S \ {p} : Before(p, q) IN
       <<flat_of(entry_at(entries, first))>> \o Listing(entries, S \ {first})

TheSidebar == editor.sidebar[1]
\* what a read of the flat list returns now
ListRead == flat_entries(TheSidebar).flat_cache
ReachablePaths ==
  {ip \in index_paths(TheSidebar.entries) :
     ReachableEntry(TheSidebar.entries, ip)}
NameMatches(ip) ==
  str_contains(to_lowercase(entry_at(TheSidebar.entries, ip).name),
               to_lowercase(TheSidebar.search_query))

\* C11: with an empty query, flat_entries() is the depth-first pre-order
\* listing of the tree that descends only into expanded directories, and
\* flat_len() is its length.
C11_EmptyQueryListsTree ==
  TheSidebar.search_query = <<>> =>
    /\ ListRead = Listing(TheSidebar.entries, ReachablePaths)
    /\ Len(flat_len(TheSidebar).flat_cache) = Cardinality(ReachablePaths)

\* C12: every read of the flat list returns the flattening of the current
\* tree under the current search_query.
C12_ReadsAreFresh ==
  ListRead = rebuild_flat_cache(TheSidebar).flat_cache

\* C13, as stated: selected_index < flat_entries().len() whenever the tree
\* is non-empty.
C13_SelectionInsideWheneverTreeNonEmpty ==
  TheSidebar.entries # <<>> => TheSidebar.selected_index < Len(ListRead)

\* C13, amended: selected_index < flat_entries().len() whenever the flat
\* list is non-empty, and selected_index = 0 when the flat list is empty.
C13_SelectionInsideNonEmptyList ==
  IF ListRead # <<>> THEN TheSidebar.selected_index < Len(ListRead)
  ELSE TheSidebar.selected_index = 0

\* the last row of a filtered list of several rows is selected
C13_Witness ==
  /\ TheSidebar.search_query # <<>>
  /\ Len(ListRead) >= 2
  /\ TheSidebar.selected_index = Len(ListRead) - 1

\* C14, as stated: with a non-empty query the flat list holds every
\* directory the unfiltered flattening holds, and a file exactly when it is
\* reachable through expanded directories and its name contains the query
\* case-insensitively.
C14_DirectoriesAlwaysListed ==
  TheSidebar.search_query # <<>> =>
    \A ip \in ReachablePaths :
      LET entry == entry_at(TheSidebar.entries, ip)
          listed == \E i \in 1..Len(ListRead) : ListRead[i] = flat_of(entry)
      IN IF entry.is_dir THEN listed ELSE listed <=> NameMatches(ip)

\* C14, amended: with a non-empty query the flat list holds, in pre-order,
\* exactly the entries (files and directories alike) that are reachable
\* through expanded directories and whose own name contains the query
\* case-insensitively; a directory whose name does not match is descended
\* into but not listed.
C14_MatchingEntriesListed ==
  TheSidebar.search_query # <<>> =>
    ListRead = Listing(TheSidebar.entries,
                       {ip \in ReachablePaths : NameMatches(ip)})

\* a filtered list shows an entry below a directory that it does not show
C14_Witness ==
  /\ TheSidebar.search_query # <<>>
  /\ ~TheSidebar.cache_dirty
  /\ \E ip \in ReachablePaths :
       /\ Len(ip) > 1
       /\ NameMatches(ip)
       /\ ~NameMatches(SubSeq(ip, 1, Len(ip) - 1))
       /\ \E i \in 1..Len(TheSidebar.flat_cache) :
            TheSidebar.flat_cache[i] =
              flat_of(entry_at(TheSidebar.entries, ip))

(***************************************************************************)
(* SpecSearch: reditor started on a file; the caret is moved and the       *)
(* search bar is opened with Ctrl+F and used.                              *)
(***************************************************************************)
\* furthest the text is scrolled to the right by the Right key
MaxColumn == 1
\* longest query typed into the search bar
MaxSearch == 1

\* the characters of the file, and those typed into the search bar
SearchFileChars == {"a", "B", NL}
SearchChars == {"A", "b"}

\* main with a file argument: the file is opened, the sidebar shows its
\* directory, and the editor runs
SearchInit ==
  /\ \E content \in SeqUpTo(SearchFileChars, MaxFile) :
       editor = run_start(Editor_new(
                  [buffers |-> <<BufferFile_new(1, content)>>,
                   active_index |-> 0],
                  <<Sidebar_new(0)>>))
  /\ nav = NoNav
  /\ status = NoStatus
  /\ batch = NoBatch
  /\ file = NoFile
  /\ DocIdle
  /\ WsIdle

\* Editor::run handles event k; what the search bar did is recorded
KeyEvent(k) ==
  /\ editor.exit = "none"
  /\ LET handled(r) == editor' = r.e /\ nav' = r.nav
     IN handled(run_event(editor, k))
  /\ UNCHANGED <<status, batch, file, docvars, wsvars>>

\* an arrow key, Home or End while the search bar is closed.  With the
\* caret shown, drawing the screen leaves the editor as it is, so the key
\* is taken as the last event of its batch.
NavigationKey(code) ==
  /\ ~editor.search_mode
  /\ code = "Right" => editor.display.initial_column < MaxColumn
  /\ KeyEvent(Key(code, TRUE))

\* Ctrl+F while the search bar is closed (an open search bar takes it as
\* the character f)
FindKey(last) ==
  /\ ~editor.search_mode
  /\ KeyEvent(CtrlKey("f", last))

\* a character typed into the search bar
SearchChar(ch, last) ==
  /\ editor.search_mode
  /\ Len(editor.search_query) < MaxSearch
  /\ KeyEvent(CharKey(ch, last))

\* Enter, Esc or Backspace in the search bar
SearchKey(code, last) ==
  /\ editor.search_mode
  /\ KeyEvent(Key(code, last))

SearchNext ==
  \/ \E code \in {"Up", "Down", "Left", "Right", "Home", "End"} :
       NavigationKey(code)
  \/ \E last \in BOOLEAN : FindKey(last)
  \/ \E ch \in SearchChars, last \in BOOLEAN : SearchChar(ch, last)
  \/ \E code \in {"Enter", "Esc", "Backspace"}, last \in BOOLEAN :
       SearchKey(code, last)

SpecSearch == SearchInit /\ [][SearchNext]_vars

(***************************************************************************)
(* Properties of the search                                                *)
(***************************************************************************)
\* the lines of the active document
Doc(e) == active(e.workspace)[1].file_matrix

\* the document position the terminal cursor stands for
CaretRow(e) == get_absolute_row(e.display, e.cursor.row)
CaretCol(e) == get_cursor_position(e.display, e.cursor.col)

\* the document line the caret was on when the search bar was opened
SavedCaretRow(e) == get_absolute_row(e.display, e.search_saved_row)

\* the <<row, col>> positions of m where query occurs, ignoring case
Occurrences(m, query) ==
  UNION {{<<row, col>> : col \in
            {c \in 0..Len(m[row + 1]) :
               /\ c + Len(query) <= Len(m[row + 1])
               /\ \A k \in 1..Len(query) :
                    to_lowercase(m[row + 1])[c + k] = to_lowercase(query)[k]}} :
         row \in 0..(Len(m) - 1)}

\* this step is Enter pressed in the search bar
EnterPressed ==
  editor.search_mode /\ nav'.did \in {"empty", "miss", "jump"}

\* the text columns of the window when it is scrolled fully to the left
TextColumns(e) ==
  saturating_sub(content_width(e.display), offset_lines_number(e.display))

\* C15: when a non-empty query occurs exactly once in the document, on a
\* line m other than the caret's line (the line the cursor stands for, and
\* the document line the caret was on when the search bar was opened),
\* Enter finds the match on line m.
C15_WrapFindsOnlyOccurrence ==
  [][(EnterPressed /\ editor.search_query # <<>>) =>
       \A occ \in Occurrences(Doc(editor), editor.search_query) :
          ( /\ Occurrences(Doc(editor), editor.search_query) = {occ}
            /\ SavedCaretRow(editor) < Len(Doc(editor))
            /\ occ[1] # CaretRow(editor)
            /\ occ[1] # SavedCaretRow(editor) )
          => nav' = [did |-> "jump", row |-> occ[1], col |-> occ[2]]]_vars

\* C16: with the cursor still on the caret, whenever the non-empty query
\* occurs anywhere in the document, the starting line at or before the
\* caret's column included, Enter finds a match.
C16_OccurrenceIsFound ==
  [][( /\ EnterPressed
       /\ editor.search_query # <<>>
       /\ editor.cursor = [col |-> editor.search_saved_col,
                           row |-> editor.search_saved_row]
       /\ Occurrences(Doc(editor), editor.search_query) # {} )
     => nav'.did = "jump"]_vars

\* C17: after a search jump to a match in the first TextColumns columns,
\* the cursor stands for the match's row and first column, and that row is
\* inside the window.
C17_CaretOnMatch ==
  (nav.did = "jump" /\ nav.col < TextColumns(editor)) =>
    /\ CaretRow(editor) = nav.row
    /\ CaretCol(editor) = nav.col
    /\ editor.display.initial_row <= nav.row
    /\ nav.row < editor.display.initial_row
                   + saturating_sub(editor.display.rows, 2)

\* C18: a search jump leaves initial_row alone when the target row was in
\* the window and otherwise sets it to target row - content_rows/2; it
\* leaves initial_column alone when the target column was in the window and
\* otherwise sets it to target column - 5; both saturate at 0.
C18_JumpRecentres ==
  [][(editor.search_mode /\ nav'.did = "jump") =>
       LET d == editor.display
           content_rows == saturating_sub(d.rows, 2)
           content_w == TextColumns(editor)
       IN /\ editor'.display.initial_row =
               IF nav'.row < d.initial_row
                  \/ nav'.row >= d.initial_row + content_rows
               THEN saturating_sub(nav'.row, content_rows \div 2)
               ELSE d.initial_row
          /\ editor'.display.initial_column =
               IF nav'.col < d.initial_column
                  \/ nav'.col >= d.initial_column + content_w
               THEN saturating_sub(nav'.col, 5)
               ELSE d.initial_column]_vars

\* C19: after Esc in the search bar the search is closed, the query is
\* empty, and the cursor and both scroll offsets are the ones saved when
\* the search bar was opened.
C19_EscRestoresSnapshot ==
  nav.did = "esc" =>
    /\ ~editor.search_mode
    /\ editor.search_query = <<>>
    /\ editor.cursor = [col |-> editor.search_saved_col,
                        row |-> editor.search_saved_row]
    /\ editor.display.initial_row = editor.search_saved_initial_row
    /\ editor.display.initial_column = editor.search_saved_initial_col

\* C20: Enter in the search bar with an empty query, or with a query that
\* occurs nowhere in the document, closes the search and leaves the cursor,
\* both scroll offsets and the documents as they were.
C20_NoMatchChangesNothing ==
  [][( /\ EnterPressed
       /\ \/ editor.search_query = <<>>
          \/ Occurrences(Doc(editor), editor.search_query) = {} )
     => /\ ~editor'.search_mode
        /\ editor'.cursor = editor.cursor
        /\ editor'.display.initial_row = editor.display.initial_row
        /\ editor'.display.initial_column = editor.display.initial_column
        /\ editor'.workspace = editor.workspace]_vars

\* C20 witness: Enter was pressed with a query that occurs nowhere in a
\* document that has text, after the window was scrolled
C20_Witness ==
  /\ nav.did = "miss"
  /\ ~editor.search_mode
  /\ editor.search_query # <<>>
  /\ Occurrences(Doc(editor), editor.search_query) = {}
  /\ \E i \in 1..Len(Doc(editor)) : Doc(editor)[i] # <<>>
  /\ editor.display.initial_row + editor.display.initial_column > 0

\* C21: a character key or Backspace in the search bar appends to the query
\* or removes its last character, and leaves the cursor, both scroll
\* offsets, the workspace (documents and active tab) and the mode alone; the
\* search bar stays open.
C21_TypingChangesOnlyQuery ==
  [][(editor.search_mode /\ nav'.did = "none") =>
       /\ editor'.search_mode
       /\ \/ \E ch \in SearchChars :
               editor'.search_query = Append(editor.search_query, ch)
          \/ editor'.search_query =
               SubSeq(editor.search_query, 1, Len(editor.search_query) - 1)
       /\ editor'.cursor = editor.cursor
       /\ editor'.display.initial_row = editor.display.initial_row
       /\ editor'.display.initial_column = editor.display.initial_column
       /\ editor'.workspace = editor.workspace
       /\ editor'.mode = editor.mode]_vars

(***************************************************************************)
(* Properties of saving                                                    *)
(***************************************************************************)
\* C29: save() returns success and clears the modified flag when the write
\* succeeds; when the write fails it returns a failure and leaves the
\* modified flag as it was; the lines and everything else stay as they were
\* either way.
C29_SaveClearsModifiedOnSuccess ==
  op.name = "save" =>
    /\ ret => buf = [pre EXCEPT !.modified = FALSE]
    /\ ~ret => buf = pre

\* C29 witness: a save of a modified document failed
C29_Witness ==
  /\ op.name = "save"
  /\ ~ret
  /\ pre.modified
  /\ buf.modified

(***************************************************************************)
(* SpecEdit: reditor started on a file; the caret is moved and the         *)
(* document is edited in insert mode.                                      *)
(***************************************************************************)
\* furthest the window is scrolled down by the Down key
MaxRow == 2

\* the character typed into the document, and the characters of its file
EditChars == {"a"}
EditFileChars == {"a", NL}

\* line counts next to which the gutter grows by a column
GutterSteps == {9, 999}

\* the documents reditor is started on: those read from short files, and
\* those read from files of n - 1 newlines, which are n empty lines, for n
\* in GutterSteps
EditDocuments ==
  {BufferFile_new(1, content) : content \in SeqUpTo(EditFileChars, MaxFile)}
  \cup {[BufferFile_new(1, <<>>) EXCEPT !.file_matrix = [i \in 1..n |-> <<>>]] :
          n \in GutterSteps}

\* main with a file argument: the file is opened, the sidebar shows its
\* directory, and the editor runs
EditInit ==
  /\ \E document \in EditDocuments :
       editor = run_start(Editor_new(
                  [buffers |-> <<document>>, active_index |-> 0],
                  <<Sidebar_new(0)>>))
  /\ nav = NoNav
  /\ status = NoStatus
  /\ batch = NoBatch
  /\ file = NoFile
  /\ DocIdle
  /\ WsIdle

\* an arrow key, Home or End, in normal or insert mode
MoveKey(code, last) ==
  /\ code = "Right" => editor.display.initial_column < MaxColumn
  /\ code = "Down" => editor.display.initial_row < MaxRow
  /\ KeyEvent(Key(code, last))

\* the key i in normal mode
InsertKey(last) ==
  /\ editor.mode = "Normal"
  /\ KeyEvent(CharKey("i", last))

\* Esc in insert mode
EscKey(last) ==
  /\ editor.mode = "Insert"
  /\ KeyEvent(Key("Esc", last))

\* a character typed in insert mode; at the right edge it scrolls the text
TypeKey(ch, last) ==
  /\ has_files(editor.workspace)
  /\ editor.mode = "Insert"
  /\ Len(Doc(editor)) <= MaxLines
  /\ total_chars(Doc(editor)) < MaxChars
  /\ editor.cursor.col >= editor.display.columns - 1
       => editor.display.initial_column < MaxColumn
  /\ KeyEvent(CharKey(ch, last))

\* Enter in insert mode
EnterKey(last) ==
  /\ editor.mode = "Insert"
  /\ Len(Doc(editor)) < MaxLines \/ Len(Doc(editor)) \in GutterSteps
  /\ KeyEvent(Key("Enter", last))

\* Backspace in insert mode; a long document is not made shorter than it
\* was at the start
BackspaceKey(last) ==
  /\ editor.mode = "Insert"
  /\ Len(Doc(editor)) <= MaxLines \/ Len(Doc(editor)) - 1 \in GutterSteps
  /\ KeyEvent(Key("Backspace", last))

EditNext ==
  \/ \E code \in {"Up", "Down", "Left", "Right", "Home", "End"},
        last \in BOOLEAN : MoveKey(code, last)
  \/ \E last \in BOOLEAN : InsertKey(last)
  \/ \E last \in BOOLEAN : EscKey(last)
  \/ \E ch \in EditChars, last \in BOOLEAN : TypeKey(ch, last)
  \/ \E last \in BOOLEAN : EnterKey(last)
  \/ \E last \in BOOLEAN : BackspaceKey(last)

SpecEdit == EditInit /\ [][EditNext]_vars

(***************************************************************************)
(* Properties of the caret and the window                                  *)
(***************************************************************************)
\* C22: after any navigation and editing keys the cursor stands for a row of
\* the document and for a column of that row, the one after its last
\* character included.
C22_CaretInsideDocument ==
  /\ CaretRow(editor) < Len(Doc(editor))
  /\ CaretCol(editor) <= get_line_length(active(editor.workspace)[1],
                                         CaretRow(editor))

\* the content rows of the window
ContentRows(d) == saturating_sub(d.rows, 2)

\* next_row and previous_row move initial_row of d by one as C23 says
StepRule(d) ==
  /\ next_row(d) =
       [d EXCEPT !.initial_row =
          IF d.initial_row + ContentRows(d) < Len(d.file_matrix)
          THEN d.initial_row + 1 ELSE d.initial_row]
  /\ previous_row(d) =
       [d EXCEPT !.initial_row =
          IF d.initial_row > 0 THEN d.initial_row - 1 ELSE 0]

\* C23 as stated, for a document that fills the window: next_row and
\* previous_row move initial_row by one as the claim says, and after
\* next_row the last content row of the window is not past the end of the
\* document.
C23_NextRowNeverPastEnd ==
  LET d == editor.display IN
  Len(d.file_matrix) >= ContentRows(d) =>
    /\ StepRule(d)
    /\ next_row(d).initial_row + ContentRows(d) <= Len(d.file_matrix)

\* C23 amended: next_row and previous_row move initial_row by one as the
\* claim says, and next_row does not take the window past the end of the
\* document: when the last content row was not past the end before, it is
\* not after.
C23_NextRowKeepsWindowInside ==
  LET d == editor.display IN
  /\ StepRule(d)
  /\ d.initial_row + ContentRows(d) <= Len(d.file_matrix)
       => next_row(d).initial_row + ContentRows(d) <= Len(d.file_matrix)

\* C23 witness: the window was scrolled down by next_row, and both next_row
\* and previous_row move it from here
C23_Witness ==
  LET d == editor.display IN
  /\ d.initial_row > 0
  /\ d.initial_row + ContentRows(d) < Len(d.file_matrix)
  /\ next_row(d).initial_row = d.initial_row + 1
  /\ previous_row(d).initial_row = d.initial_row - 1

\* the screen rows and columns of the content area: the rows between the
\* tab bar and the status bar, the columns to the right of the gutter
ContentAreaRows(d) == content_top_row..(d.rows - 2)
ContentAreaColumns(d) ==
  (d.sidebar_width + offset_lines_number(d))..(d.columns - 1)

\* C24: for every screen position of the content area, get_absolute_row is
\* initial_row + (screen_row - content_top_row) and get_cursor_position is
\* initial_column + screen_col - (sidebar_width + gutter width).
C24_CoordinateFormulas ==
  LET d == editor.display IN
  /\ \A screen_row \in ContentAreaRows(d) :
       get_absolute_row(d, screen_row)
         = d.initial_row + (screen_row - content_top_row)
  /\ \A screen_col \in ContentAreaColumns(d) :
       get_cursor_position(d, screen_col)
         = d.initial_column + screen_col
             - (d.sidebar_width + offset_lines_number(d))

\* C24 witness: the window is scrolled both ways and the cursor is inside
\* the content area, away from its first row and column
C24_Witness ==
  LET d == editor.display IN
  /\ d.initial_row > 0
  /\ d.initial_column > 0
  /\ editor.cursor.row \in ContentAreaRows(d)
  /\ editor.cursor.col \in ContentAreaColumns(d)
  /\ editor.cursor.row > content_top_row
  /\ editor.cursor.col > d.sidebar_width + offset_lines_number(d)

\* the number of decimal digits of n: the least k with n < 10^k
Digits(n) == CHOOSE k \in 1..(n + 1) : n < 10 ^ k /\ (k > 1 => n >= 10 ^ (k - 1))

\* C25: the gutter is as wide as the line count of the document has decimal
\* digits, plus 2, in every state, those right after a split or a merge
\* included.
C25_GutterWidth ==
  offset_lines_number(editor.display) = Digits(Len(Doc(editor))) + 2

\* C25 witness: Enter has split a line of a document of 999 lines, and the
\* gutter is 6 wide where it was 5
C25_Witness ==
  /\ Len(Doc(editor)) = 1000
  /\ offset_lines_number(editor.display) = 6
  /\ Digits(999) + 2 = 5

(***************************************************************************)
(* SpecStatus: Display::render_status_bar drawn once, for a display whose  *)
(* status fields and width are chosen at the start.  A String is a         *)
(* sequence of characters here; its len() counts bytes, its chars() the    *)
(* characters.                                                             *)
(***************************************************************************)
\* widest status bar drawn
MaxWidth == 50
\* longest file name shown
MaxName == 2

\* the characters of a file name: one of one byte, one of two bytes
NameChars == {"a", "é"}
\* the numbers shown as line, column and line count
StatusNumbers == {1, 12}

\* char::len_utf8
len_utf8(ch) == IF ch = "é" THEN 2 ELSE 1

\* String::len: the bytes of s
RECURSIVE str_len(_)
str_len(s) == IF s = <<>> THEN 0 ELSE len_utf8(Head(s)) + str_len(Tail(s))

\* n.to_string(): n written in decimal
RECURSIVE to_string(_)
to_string(n) ==
  LET digit ==
        <<"0", "1", "2", "3", "4", "5", "6", "7", "8", "9">>[(n % 10) + 1]
  IN IF n < 10 THEN <<digit>> ELSE Append(to_string(n \div 10), digit)

\* " ".repeat(n)
repeat_space(n) == [i \in 1..n |-> " "]

\* the left and the right part of the status line
left_part(d) ==
  <<" ">> \o (IF d.modified THEN <<"[", "+", "]", " ">> ELSE <<>>) \o d.filename
right_part(d) ==
  LET info_part ==
        <<"L", "n", " ">> \o to_string(d.cursor_line)
        \o <<",", " ", "C", "o", "l", " ">> \o to_string(d.cursor_column)
        \o <<" ", "|", " ">> \o to_string(d.file_size)
        \o <<" ", "l", "i", "n", "h", "a", "s">>
      mode_text == <<" ", "-", "-", " ">> \o d.mode \o <<" ", "-", "-", " ">>
  IN info_part \o <<" ", " ">> \o mode_text

\* Display::render_status_bar with a padding that leaves one column free
render_status_bar_short(d, width) ==
  LET padding == saturating_sub(
                   width, str_len(left_part(d)) + str_len(right_part(d)) + 1)
  IN left_part(d) \o repeat_space(padding) \o right_part(d)

\* Display::render_status_bar: the string written on the status row
render_status_bar(d, width) ==
  LET padding == saturating_sub(
                   width, str_len(left_part(d)) + str_len(right_part(d)))
      status_chars == left_part(d) \o repeat_space(padding) \o right_part(d)
  IN [i \in 1..width |->
        IF i <= Len(status_chars) THEN status_chars[i] ELSE " "]

\* a display with its status fields set, about to be drawn width wide
StatusInit ==
  /\ \E width \in 0..MaxWidth, filename \in SeqUpTo(NameChars, MaxName),
        modified \in BOOLEAN,
        mode \in {<<"N", "O", "R", "M", "A", "L">>,
                  <<"I", "N", "S", "E", "R", "T">>},
        cursor_line \in StatusNumbers, cursor_column \in StatusNumbers,
        file_size \in StatusNumbers :
       status = [width |-> width, filename |-> filename,
                 modified |-> modified, mode |-> mode,
                 cursor_line |-> cursor_line,
                 cursor_column |-> cursor_column, file_size |-> file_size,
                 drawn |-> FALSE, line |-> <<>>]
  /\ editor = NoEditor
  /\ nav = NoNav
  /\ batch = NoBatch
  /\ file = NoFile
  /\ DocIdle
  /\ WsIdle

\* show_display draws the status bar
RenderStatusBar ==
  /\ ~status.drawn
  /\ status' = [status EXCEPT !.drawn = TRUE,
                              !.line = render_status_bar(status, status.width)]
  /\ UNCHANGED <<editor, nav, batch, file, docvars, wsvars>>

StatusNext == RenderStatusBar

SpecStatus == StatusInit /\ [][StatusNext]_vars

\* C26: the status line drawn has exactly `width` characters: when the left
\* and right parts are longer than the width it is their first `width`
\* characters, otherwise it is the left part, spaces, the right part, and
\* spaces up to the width.
C26_StatusLineHasWidth ==
  status.drawn =>
    LET left == left_part(status)
        right == right_part(status)
        width == status.width
    IN /\ Len(status.line) = width
       /\ Len(left) + Len(right) >= width
            => status.line = SubSeq(left \o right, 1, width)
       /\ Len(left) + Len(right) < width
            => \E before \in 0..(width - Len(left) - Len(right)) :
                 status.line =
                   left \o repeat_space(before) \o right
                   \o repeat_space(width - Len(left) - Len(right) - before)

\* C26 witness: a line was cut to the width in the middle of its right part
C26_Witness ==
  /\ status.drawn
  /\ status.width > Len(left_part(status))
  /\ status.width < Len(left_part(status)) + Len(right_part(status))
  /\ status.modified
  /\ \E i \in 1..Len(status.filename) : status.filename[i] = "é"

\* a line was padded to the width
C26_WitnessPadded ==
  /\ status.drawn
  /\ status.width > Len(left_part(status)) + Len(right_part(status))
  /\ str_len(left_part(status)) > Len(left_part(status))

(***************************************************************************)
(* SpecTabs: reditor started on a file longer than the screen; the caret   *)
(* is moved up and down, further files are opened from the prompt and the  *)
(* sidebar, the tabs are switched and the active document is saved.        *)
(***************************************************************************)
\* the document reditor is started on: file 1, with lines for every row
\* the window can be scrolled to
TabsDocument ==
  [BufferFile_new(1, <<>>) EXCEPT
     !.file_matrix = [i \in 1..(MaxRow + TermRows) |-> <<>>]]

\* the files named at the prompt: the one reditor was started on and one
\* more
PromptPaths == {1, 2}

TabsInit ==
  /\ editor = run_start(Editor_new(
                [buffers |-> <<TabsDocument>>, active_index |-> 0],
                <<Sidebar_new(0)>>))
  /\ nav = NoNav
  /\ status = NoStatus
  /\ batch = NoBatch
  /\ file = NoFile
  /\ DocIdle
  /\ WsIdle

\* Up or Down in the document
ScrollKey(code, last) ==
  /\ editor.focus = "Editor"
  /\ code = "Down" => editor.display.initial_row < MaxRow
  /\ KeyEvent(Key(code, last))

\* Ctrl+Tab or Ctrl+BackTab
TabKey(code, last) ==
  /\ code \in {"Tab", "BackTab"}
  /\ KeyEvent([code |-> code, ch |-> "", ctrl |-> TRUE, last |-> last])

\* Ctrl+O and what is answered to the prompt
OpenKey(path, last) ==
  /\ path # <<>> => path[1] \in Paths
  /\ KeyEvent([code |-> "Char", ch |-> "o", ctrl |-> TRUE, last |-> last,
               path |-> path])

\* Ctrl+T.  As for the keys of the sidebar below, the key is taken as the
\* last event of its batch.
TreeKey(last) ==
  /\ editor.sidebar # <<>>
  /\ KeyEvent(CtrlKey("t", last))

\* Down in the sidebar, or Enter on a file of it
TreeMoveKey(code, last) ==
  /\ editor.focus = "Sidebar"
  /\ code = "Enter" => ~is_selected_dir(editor.sidebar[1]).ret
  /\ KeyEvent(Key(code, last))

\* Ctrl+S
SaveKey(write_ok, last) ==
  /\ has_files(editor.workspace)
  /\ KeyEvent([code |-> "Char", ch |-> "s", ctrl |-> TRUE, last |-> last,
               write_ok |-> write_ok])

TabsNext ==
  \/ \E code \in {"Up", "Down"}, last \in BOOLEAN : ScrollKey(code, last)
  \/ \E code \in {"Tab", "BackTab"}, last \in BOOLEAN : TabKey(code, last)
  \/ \E path \in {<<>>} \cup {<<p>> : p \in PromptPaths}, last \in BOOLEAN :
       OpenKey(path, last)
  \/ TreeKey(TRUE)
  \/ \E code \in {"Down", "Enter"} : TreeMoveKey(code, TRUE)
  \/ \E write_ok \in BOOLEAN, last \in BOOLEAN : SaveKey(write_ok, last)

SpecTabs == TabsInit /\ [][TabsNext]_vars

(***************************************************************************)
(* Properties of the tabs                                                  *)
(***************************************************************************)
\* the file name of the active document
ActiveFile(e) == active(e.workspace)[1].filename

\* the open document of file `name`
Opened(e, name) ==
  e.workspace.buffers[position_of(e.workspace.buffers, name) + 1]

\* C27: whenever the active document changes, the window's offsets are
\* written into the snapshot of the document that stops being active, and
\* a document that becomes active again is shown at the offsets of its
\* snapshot.
C27_OffsetsPersistAcrossTabs ==
  [][ActiveFile(editor') # ActiveFile(editor) =>
       /\ Opened(editor', ActiveFile(editor)).initial_row
            = editor.display.initial_row
       /\ Opened(editor', ActiveFile(editor)).initial_column
            = editor.display.initial_column
       /\ position_of(editor.workspace.buffers, ActiveFile(editor')) >= 0 =>
            /\ editor'.display.initial_row
                 = Opened(editor, ActiveFile(editor')).initial_row
            /\ editor'.display.initial_column
                 = Opened(editor, ActiveFile(editor')).initial_column]_vars

(***************************************************************************)
(* SpecBatch: reditor started on a file; keys arrive in batches of up to   *)
(* MaxBatch events, and the calls of render are counted per batch.         *)
(***************************************************************************)
\* most events in a batch
MaxBatch == 3

BatchInit ==
  /\ editor = run_start(Editor_new(
                [buffers |-> <<BufferFile_new(1, <<"a">>)>>,
                 active_index |-> 0],
                <<Sidebar_new(0)>>))
  /\ nav = NoNav
  /\ status = NoStatus
  /\ batch = NoBatch
  /\ file = NoFile
  /\ DocIdle
  /\ WsIdle

\* Editor::run handles event k, the next of the batch being handled or,
\* when that one is done, the first of a new one
BatchEvent(k) ==
  LET open == IF batch.done THEN [NoBatch EXCEPT !.done = FALSE] ELSE batch
  IN /\ editor.exit = "none"
     /\ k.last \/ open.events + 1 < MaxBatch
     /\ LET handled(r) ==
              /\ editor' = r.e
              /\ batch' = [events |-> open.events + 1,
                           renders |-> open.renders + r.renders,
                           done |-> k.last]
        IN handled(run_event(editor, k))
     /\ UNCHANGED <<nav, status, file, docvars, wsvars>>

\* Up or Down in the document
BatchArrow(code, last) ==
  /\ editor.focus = "Editor"
  /\ code = "Down" => editor.display.initial_row < MaxRow
  /\ BatchEvent(Key(code, last))

\* i in normal mode, Esc in insert mode
BatchMode(last) ==
  /\ editor.focus = "Editor"
  /\ BatchEvent(IF editor.mode = "Normal" THEN CharKey("i", last)
                ELSE Key("Esc", last))

\* Ctrl+T
BatchToggle(last) ==
  /\ editor.sidebar # <<>>
  /\ BatchEvent(CtrlKey("t", last))

\* Ctrl+Tab
BatchTab(last) ==
  /\ has_files(editor.workspace)
  /\ BatchEvent([code |-> "Tab", ch |-> "", ctrl |-> TRUE, last |-> last])

\* a key of the sidebar; Enter opens at most one more file
BatchTree(code, last) ==
  /\ editor.focus = "Sidebar"
  /\ code = "Enter" => Len(editor.workspace.buffers) < 2
  /\ BatchEvent(Key(code, last))

BatchNext ==
  \/ \E code \in {"Up", "Down"}, last \in BOOLEAN :
       BatchArrow(code, last)
  \/ \E last \in BOOLEAN : BatchMode(last)
  \/ \E last \in BOOLEAN : BatchToggle(last)
  \/ \E last \in BOOLEAN : BatchTab(last)
  \/ \E code \in {"Up", "Down", "Enter", "Right"}, last \in BOOLEAN :
       BatchTree(code, last)

SpecBatch == BatchInit /\ [][BatchNext]_vars

(***************************************************************************)
(* Properties of the batches                                               *)
(***************************************************************************)
\* C28: render is called once for a batch, after its last event: none is
\* made while events of the batch are left, and one has been made when the
\* batch is done.
C28_OneRenderPerBatch ==
  /\ ~batch.done => batch.renders = 0
  /\ (batch.done /\ batch.events > 0) => batch.renders = 1

(***************************************************************************)
(* SpecSave: reditor started on a file; text is typed, further files are   *)
(* opened, and the documents are saved, closed and quit from, with writes  *)
(* that succeed or fail.                                                   *)
(***************************************************************************)
\* what is answered to confirm_quit
QuitActions == {"Save", "Discard", "Cancel"}

SaveInit ==
  /\ editor = run_start(Editor_new(
                [buffers |-> <<BufferFile_new(1, <<"a">>)>>,
                 active_index |-> 0],
                <<Sidebar_new(0)>>))
  /\ nav = NoNav
  /\ status = NoStatus
  /\ batch = NoBatch
  /\ file = NoFile
  /\ DocIdle
  /\ WsIdle

\* Ctrl+Q
QuitKey(answer, write_ok, last) ==
  /\ answer \in QuitActions
  /\ KeyEvent([code |-> "Char", ch |-> "q", ctrl |-> TRUE, last |-> last,
               answer |-> answer, write_ok |-> write_ok])

\* Ctrl+W
CloseKey(answer, write_ok, last) ==
  /\ answer \in QuitActions
  /\ KeyEvent([code |-> "Char", ch |-> "w", ctrl |-> TRUE, last |-> last,
               answer |-> answer, write_ok |-> write_ok])

SaveNext ==
  \/ \E last \in BOOLEAN : InsertKey(last)
  \/ \E last \in BOOLEAN : EscKey(last)
  \/ \E ch \in EditChars, last \in BOOLEAN : TypeKey(ch, last)
  \/ \E path \in PromptPaths, last \in BOOLEAN : OpenKey(<<path>>, last)
  \/ \E write_ok \in BOOLEAN, last \in BOOLEAN : SaveKey(write_ok, last)
  \/ \E answer \in QuitActions, write_ok \in BOOLEAN, last \in BOOLEAN :
       QuitKey(answer, write_ok, last)
  \/ \E answer \in QuitActions, write_ok \in BOOLEAN, last \in BOOLEAN :
       CloseKey(answer, write_ok, last)

SpecSave == SaveInit /\ [][SaveNext]_vars

(***************************************************************************)
(* Properties of Editor::run                                               *)
(***************************************************************************)
\* C30: a save that fails, on Ctrl+S or on Save answered to the question of
\* Ctrl+Q or Ctrl+W, does not end the event loop: run is never left with
\* an error.
C30_SaveFailureKeepsRunning == editor.exit # "error"

(***************************************************************************)
(* SpecFile: a file on disk, of any content, is read by BufferFile::new.   *)
(***************************************************************************)
\* the characters of the file
DiskChars == {"a", "b", NL, CR}

FileInit ==
  /\ \E content \in SeqUpTo(DiskChars, MaxFile) :
       file = [content |-> content, read |-> FALSE, matrix |-> <<>>]
  /\ editor = NoEditor
  /\ nav = NoNav
  /\ status = NoStatus
  /\ batch = NoBatch
  /\ DocIdle
  /\ WsIdle

\* BufferFile::new reads the file
ReadFile ==
  /\ ~file.read
  /\ file' = [file EXCEPT
                !.read = TRUE,
                !.matrix = BufferFile_new(1, file.content).file_matrix]
  /\ UNCHANGED <<editor, nav, status, batch, docvars, wsvars>>

FileNext == ReadFile

SpecFile == FileInit /\ [][FileNext]_vars

(***************************************************************************)
(* Properties of reading and writing files                                 *)
(***************************************************************************)
\* C31: the lines read from a file are its content cut at the newlines and
\* nothing else: no line holds a newline, and the lines joined by newlines
\* are the content again, but for one newline at its end.
C31_SplitsOnlyAtNewlines ==
  file.read =>
    /\ \A i \in 1..Len(file.matrix) :
         \A j \in 1..Len(file.matrix[i]) : file.matrix[i][j] # NL
    /\ \/ join_lines(file.matrix) = file.content
       \/ join_lines(file.matrix) \o <<NL>> = file.content

\* C39: a document saved and opened again from the same path has the lines
\* it was saved with.
C39_SaveThenReopen ==
  (op.name = "save" /\ ret) =>
    BufferFile_new(buf.filename, join_lines(buf.file_matrix)).file_matrix
      = buf.file_matrix

(***************************************************************************)
(* SpecDirty: one BufferFile, opened from a file, edited and saved; the    *)
(* lines it was opened with or last saved with are kept in `clean`.        *)
(***************************************************************************)
DirtyInit ==
  /\ \E content \in SeqUpTo(EditFileChars, MaxFile) :
       /\ buf = BufferFile_new(1, content)
       /\ clean = buf.file_matrix
  /\ op = NoCall
  /\ ret = FALSE
  /\ pre = BufferFile_new(1, <<>>)
  /\ trip = NoTrip
  /\ WsIdle
  /\ EdIdle

\* add_char, remove_char or split_line: the saved lines stay
DirtyEdit(b) ==
  /\ buf' = b
  /\ clean' = clean
  /\ UNCHANGED <<op, ret, pre, trip, wsvars, edvars>>

DirtyAddChar(character, column, row) ==
  /\ row < Len(buf.file_matrix) => total_chars(buf.file_matrix) < MaxChars
  /\ DirtyEdit(add_char(buf, character, column, row))

DirtyRemoveChar(column, row) ==
  /\ row < Len(buf.file_matrix) \/ row = Len(buf.file_matrix)
  /\ DirtyEdit(remove_char(buf, column, row).b)

DirtySplitLine(column, row) ==
  /\ row < Len(buf.file_matrix) => Len(buf.file_matrix) < MaxLines
  /\ DirtyEdit(split_line(buf, column, row))

\* save: when the write succeeds the lines written are the saved lines
DirtySave(write_ok) ==
  /\ buf' = save(buf, write_ok).b
  /\ clean' = IF save(buf, write_ok).ret THEN buf.file_matrix ELSE clean
  /\ UNCHANGED <<op, ret, pre, trip, wsvars, edvars>>

DirtyNext ==
  \/ \E character \in EditChars, row \in Rows(buf) :
       \E column \in Columns(buf, row) : DirtyAddChar(character, column, row)
  \/ \E row \in Rows(buf) :
       \E column \in Columns(buf, row) : DirtyRemoveChar(column, row)
  \/ \E row \in Rows(buf) :
       \E column \in Columns(buf, row) : DirtySplitLine(column, row)
  \/ \E write_ok \in BOOLEAN : DirtySave(write_ok)

SpecDirty == DirtyInit /\ [][DirtyNext]_vars

\* C36: a document whose lines differ from the lines it was opened with or
\* last saved with is marked modified.
C36_ChangedIsModified == buf.file_matrix # clean => buf.modified

\* C36 witness: a document saved with lines other than it was opened with,
\* and changed again since
C36_Witness ==
  /\ buf.file_matrix # clean
  /\ buf.modified
  /\ clean # BufferFile_new(1, join_lines(clean)).file_matrix
  /\ Len(buf.file_matrix) < Len(clean)

\* C33: Ctrl+S with a write that succeeds leaves the window's offsets, the
\* cursor, the active tab and the lines of every document as they were.
C33_SaveKeepsView ==
  [][(nav'.did = "save" /\ editor'.exit = "none") =>
       /\ editor'.display.initial_row = editor.display.initial_row
       /\ editor'.display.initial_column = editor.display.initial_column
       /\ editor'.cursor = editor.cursor
       /\ editor'.workspace.active_index = editor.workspace.active_index
       /\ Len(editor'.workspace.buffers) = Len(editor.workspace.buffers)
       /\ \A i \in 1..Len(editor.workspace.buffers) :
            editor'.workspace.buffers[i].file_matrix
              = editor.workspace.buffers[i].file_matrix]_vars

\* the documents of e that are marked modified, by file name
ModifiedFiles(e) ==
  {e.workspace.buffers[i].filename : i \in
     {j \in 1..Len(e.workspace.buffers) : e.workspace.buffers[j].modified}}

\* the file names of the open documents of e
OpenFiles(e) ==
  {e.workspace.buffers[i].filename : i \in 1..Len(e.workspace.buffers)}

\* C34: a modified document goes away, by Ctrl+W or by the editor quitting
\* on Ctrl+Q, only when the question was answered Save or Discard; with the
\* answer Cancel the workspace stays as it is and the editor keeps running.
C34_NoLossWithoutConfirmation ==
  [][/\ (ModifiedFiles(editor) \ OpenFiles(editor') # {}
         \/ (ModifiedFiles(editor) # {} /\ editor'.exit = "quit"))
        => /\ nav'.did \in {"quit", "close"}
           /\ nav'.answer \in {"Save", "Discard"}
     /\ (nav'.did \in {"quit", "close"} /\ nav'.answer = "Cancel")
        => /\ editor'.workspace = editor.workspace
           /\ editor'.exit = "none"]_vars

\* C34 witness: Ctrl+Q was answered Cancel with a modified document open
C34_Witness ==
  /\ nav.did = "quit"
  /\ nav.answer = "Cancel"
  /\ ModifiedFiles(editor) # {}
  /\ editor.exit = "none"

\* Ctrl+W was answered Discard and a modified document went away
C34_WitnessDiscard ==
  /\ nav.did = "close"
  /\ nav.answer = "Discard"
  /\ editor.workspace.buffers = <<>>
  /\ editor.exit = "none"

(***************************************************************************)
(* SpecKeys: reditor started on a file; the keys of the search bar, of the *)
(* sidebar and of both modes arrive in whatever mode and focus the editor  *)
(* is in.  In insert mode only the letter a and Backspace edit.            *)
(***************************************************************************)
KeysInit == SaveInit

\* the key keeps the documents, the queries and the window within the
\* bounds of the model: the search bar and the sidebar take the letter a, the
\* sidebar takes / to open its query, the document takes the letter a and
\* Backspace while the cursor is on one of its rows
WithinBounds(k) ==
  LET typing == /\ ~editor.search_mode
                /\ editor.focus = "Editor"
                /\ editor.mode = "Insert"
                /\ has_files(editor.workspace)
  IN /\ (editor.search_mode /\ k.code = "Char")
          => /\ Len(editor.search_query) < MaxSearch
             /\ k.ch = "a"
     /\ (~editor.search_mode /\ editor.focus = "Sidebar" /\ k.code = "Char")
          => /\ Len(editor.sidebar[1].search_query) < MaxSearch
             /\ k.ch = (IF editor.sidebar[1].search_active THEN "a" ELSE "/")
     /\ (typing /\ k.code = "Char")
          => /\ k.ch = "a"
             /\ total_chars(Doc(editor)) < MaxChars
             /\ editor.cursor.col >= editor.display.columns - 1
                  => editor.display.initial_column < MaxColumn
     /\ typing => k.code # "Enter"
     /\ (typing /\ k.code \in {"Char", "Backspace"})
          => editor.cursor.row < editor.display.rows - 1

\* Enter, Backspace or Esc
PlainKey(code) ==
  /\ WithinBounds(Key(code, TRUE))
  /\ KeyEvent(Key(code, TRUE))

\* a character
LetterKey(ch) ==
  /\ WithinBounds(CharKey(ch, TRUE))
  /\ KeyEvent(CharKey(ch, TRUE))

\* Ctrl+T, Ctrl+F, Ctrl+S with a write that succeeds, Ctrl+W answered
\* Discard, outside the search bar (which takes them for letters)
ShortcutKey(ch) ==
  /\ ch \in {"t", "f", "s", "w"}
  /\ ~editor.search_mode
  /\ KeyEvent([code |-> "Char", ch |-> ch, ctrl |-> TRUE, last |-> TRUE,
               write_ok |-> TRUE, answer |-> "Discard"])

KeysNext ==
  \/ \E code \in {"Enter", "Backspace", "Esc"} : PlainKey(code)
  \/ \E ch \in {"a", "i", "/"} : LetterKey(ch)
  \/ \E ch \in {"t", "f", "s", "w"} : ShortcutKey(ch)

SpecKeys == KeysInit /\ [][KeysNext]_vars

\* the document of file `name` is open in e and in f with the same lines,
\* and with the same modified flag
SameDocument(e, f, name) ==
  /\ Opened(e, name).file_matrix = Opened(f, name).file_matrix
  /\ Opened(e, name).modified = Opened(f, name).modified

\* C35: in normal mode, with the focus on the sidebar, on the welcome screen
\* and while the search bar is open, no key changes the lines or the
\* modified flag of a document, but for Ctrl+S clearing the flag.
C35_OnlyInsertModeEdits ==
  [][(\/ editor.mode = "Normal"
      \/ editor.focus = "Sidebar"
      \/ editor.show_welcome
      \/ editor.search_mode) =>
       \A name \in OpenFiles(editor) \cap OpenFiles(editor') :
         \/ SameDocument(editor, editor', name)
         \/ /\ nav'.did = "save"
            /\ Opened(editor', name).file_matrix
                 = Opened(editor, name).file_matrix
            /\ ~Opened(editor', name).modified]_vars

\* C35 witness: a character arrived in insert mode while the search bar was
\* open on a modified document
C35_Witness ==
  /\ editor.search_mode
  /\ editor.mode = "Insert"
  /\ editor.search_query # <<>>
  /\ ModifiedFiles(editor) # {}

\* a character arrived while the focus was on the sidebar, in insert mode
C35_WitnessSidebar ==
  /\ editor.focus = "Sidebar"
  /\ editor.mode = "Insert"
  /\ editor.sidebar[1].search_query # <<>>
  /\ ModifiedFiles(editor) # {}

(***************************************************************************)
(* The rows show_display draws                                             *)
(***************************************************************************)
\* show_display: the index of the document line drawn at the first content
\* row; a window that reaches past the end of the document is drawn from
\* further up
file_matrix_row_start(d) ==
  LET content_rows == saturating_sub(d.rows, 2)
      file_matrix_row_end == d.initial_row + content_rows
  IN IF file_matrix_row_end > Len(d.file_matrix)
     THEN saturating_sub(d.initial_row,
                         file_matrix_row_end - Len(d.file_matrix))
     ELSE d.initial_row

\* show_display: the index of the document line drawn at content screen row
\* screen_row
drawn_row(d, screen_row) ==
  file_matrix_row_start(d) + (screen_row - content_top_row)

\* C32: at every content screen row where show_display draws a line of the
\* document, the line drawn is the one get_absolute_row addresses.
C32_DrawnRowIsEditedRow ==
  LET d == editor.display IN
  \A screen_row \in ContentAreaRows(d) :
    drawn_row(d, screen_row) < Len(d.file_matrix)
      => drawn_row(d, screen_row) = get_absolute_row(d, screen_row)

(***************************************************************************)
(* SpecWelcome: reditor started without a file argument, on the welcome    *)
(* screen with the focus on the sidebar; files are opened from the prompt  *)
(* and from the sidebar, edited, switched between and closed.              *)
(***************************************************************************)
WelcomeInit ==
  /\ editor = run_start(Editor_new([buffers |-> <<>>, active_index |-> 0],
                                   <<Sidebar_new(0)>>))
  /\ nav = NoNav
  /\ status = NoStatus
  /\ batch = NoBatch
  /\ file = NoFile
  /\ DocIdle
  /\ WsIdle

\* a key of insert mode that edits, with the focus on a document that has
\* not been edited yet and the cursor on one of its rows
EditKey(code, ch) ==
  /\ has_files(editor.workspace)
  /\ editor.focus = "Editor"
  /\ editor.mode = "Insert"
  /\ ~active(editor.workspace)[1].modified
  /\ editor.cursor.row < editor.display.rows - 1
  /\ editor.cursor.col < editor.display.columns - 1
  /\ KeyEvent([code |-> code, ch |-> ch, ctrl |-> FALSE, last |-> TRUE])

WelcomeNext ==
  \/ \E path \in {<<>>} \cup {<<p>> : p \in PromptPaths} : OpenKey(path, TRUE)
  \/ TreeKey(TRUE)
  \/ \E code \in {"Down", "Enter"} : TreeMoveKey(code, TRUE)
  \/ \E code \in {"Tab", "BackTab"} : TabKey(code, TRUE)
  \/ \E answer \in QuitActions : CloseKey(answer, TRUE, TRUE)
  \/ InsertKey(TRUE)
  \/ \E code \in {"Char", "Enter", "Backspace"} : EditKey(code, "a")

SpecWelcome == WelcomeInit /\ [][WelcomeNext]_vars

(***************************************************************************)
(* The display's copy of the document, and the welcome screen              *)
(***************************************************************************)
\* C37: while the editor runs and a document is active, the lines the
\* display holds are the lines of the active document.
C37_DisplayHoldsActiveLines ==
  (editor.exit = "none" /\ has_files(editor.workspace))
    => editor.display.file_matrix = Doc(editor)

\* C37 witness: a second document was opened, made active and edited
C37_Witness ==
  /\ editor.exit = "none"
  /\ Len(editor.workspace.buffers) = 2
  /\ editor.workspace.active_index = 1
  /\ active(editor.workspace)[1].modified
  /\ editor.display.file_matrix = Doc(editor)

\* C38: while the editor runs, the welcome screen is shown exactly when no
\* document is open.
C38_WelcomeIffNoDocuments ==
  editor.exit = "none" => (editor.show_welcome <=> ~has_files(editor.workspace))

\* C38 witness: the last document was closed and the welcome screen is shown
C38_Witness ==
  /\ editor.exit = "none"
  /\ nav.did = "close"
  /\ ~has_files(editor.workspace)
  /\ editor.show_welcome
====
